---- MODULE Spec2Model ----
(***************************************************************************)
(* A model of barnapy's directed-graph core (barnapy/graph.py): the Graph  *)
(* facade over DictSetNodeEdgeStore and DictPropertyStore, and the         *)
(* generalized Dijkstra search shortest_path_btw_sets, one action per      *)
(* call set-up and one per iteration of its while loop.                    *)
(***************************************************************************)
EXTENDS Integers, Sequences, FiniteSets, TLC

(***************************************************************************)
(* Bounds of the model.                                                    *)
(***************************************************************************)
\* Nodes of the graph are 1..NumNodes; NumNodes + 1 is a node that is never
\* added to the graph (callers may still name it).
NumNodes == 3
\* Largest number of edges of a graph.
MaxEdges == 3
\* Largest explicit edge weight (explicit weights are 0 and MaxWeight).
MaxWeight == 3
\* Largest number of excluded nodes, and of excluded edges.
MaxExcluded == 2

(***************************************************************************)
(* Program constants.                                                      *)
(***************************************************************************)
\* Python's None, as a value that is no node, no weight and no distance.
None == -1
\* The weight key 'weight' (a string in the code; here a number no node has).
WeightKey == 100
\* The default weight the tests construct their graphs with.
DefaultWeight == 1
\* The DictPropertyStore object itself, which get_property uses as its
\* sentinel; a value like any other, that a caller may store too.
Self == -2

Node == 1 .. NumNodes
ArgNode == 1 .. (NumNodes + 1)
Weights == {0, MaxWeight}

(***************************************************************************)
(* Generic helpers.                                                        *)
(***************************************************************************)
Range(f) == {f[i] : i \in DOMAIN f}

Perms(S) ==
  {f \in [1 .. Cardinality(S) -> S] : \A i, j \in DOMAIN f : f[i] = f[j] => i = j}

RECURSIVE SubsetsUpTo(_, _)
SubsetsUpTo(S, k) ==
  IF k = 0 THEN {{}}
  ELSE LET R == SubsetsUpTo(S, k - 1) IN R \cup {r \cup {x} : r \in R, x \in S}

Min(S) == CHOOSE x \in S : \A y \in S : x <= y

(***************************************************************************)
(* DictPropertyStore: one dict, _key_hedge2val.  A dict key is either the  *)
(* bare property key (its default) or the tuple (property_key, *nodes).    *)
(* Keys are Python values, equal exactly when Python finds them equal: a   *)
(* value that is no tuple, k, is written <<0, k>>; a tuple of such values  *)
(* <<1>> \o items; a tuple whose first item is itself a tuple of n items   *)
(* <<2, n>> \o the items of the first \o the other items.  A property key  *)
(* is any hashable value, a tuple too.                                     *)
(***************************************************************************)
Atom(k) == <<0, k>>
TupleOf(items) == <<1>> \o items

\* self.weight_key
weight_key == Atom(WeightKey)

\* The dict key of the default of a property: the property key itself.
BareKey(property_key) == property_key
\* The dict key (property_key, *nodes).
HedgeKey(property_key, nodes) ==
  IF property_key[1] = 0
  THEN TupleOf(<<property_key[2]>> \o nodes)
  ELSE <<2, Len(property_key) - 1>> \o Tail(property_key) \o nodes

has_property_default(kh, property_key) == BareKey(property_key) \in DOMAIN kh

has_property(kh, property_key, nodes) == HedgeKey(property_key, nodes) \in DOMAIN kh

\* dict.get(k, default)
DictGet(d, k, default) == IF k \in DOMAIN d THEN d[k] ELSE default

get_property_default(kh, property_key, value_if_not_exist) ==
  DictGet(kh, BareKey(property_key), value_if_not_exist)

\* Mutant of get_property: the key's default is never consulted.
get_property_no_default(kh, property_key, nodes, value_if_not_exist) ==
  DictGet(kh, HedgeKey(property_key, nodes), value_if_not_exist)

\* value = dict.get((property_key, *nodes), self); if value is self: ...
get_property(kh, property_key, nodes, value_if_not_exist) ==
  LET value == DictGet(kh, HedgeKey(property_key, nodes), Self)
  IN  IF value = Self
      THEN DictGet(kh, BareKey(property_key), value_if_not_exist)
      ELSE value

DictSet(d, k, v) == [x \in DOMAIN d \cup {k} |-> IF x = k THEN v ELSE d[x]]
DictDel(d, k) == [x \in DOMAIN d \ {k} |-> d[x]]

set_property(kh, property_key, value, nodes) ==
  DictSet(kh, HedgeKey(property_key, nodes), value)

set_property_default(kh, property_key, value) ==
  DictSet(kh, BareKey(property_key), value)

del_property_default(kh, property_key) ==
  IF BareKey(property_key) \in DOMAIN kh
  THEN DictDel(kh, BareKey(property_key))
  ELSE kh

del_property(kh, property_key, nodes) ==
  IF HedgeKey(property_key, nodes) \in DOMAIN kh
  THEN DictDel(kh, HedgeKey(property_key, nodes))
  ELSE kh

(***************************************************************************)
(* DictSetNodeEdgeStore: one dict, _nodes2childrens, node -> set of        *)
(* children.                                                               *)
(***************************************************************************)
store_has_node(n2c, node) == node \in DOMAIN n2c

\* Mutant of store_add_node: the node's children are reset.
store_add_node_reset(n2c, node) == DictSet(n2c, node, {})

store_add_node(n2c, node) ==
  IF node \notin DOMAIN n2c THEN DictSet(n2c, node, {}) ELSE n2c

store_has_edge(n2c, node1, node2) ==
  IF node1 \notin DOMAIN n2c THEN FALSE ELSE node2 \in n2c[node1]

store_add_edge(n2c, node1, node2) ==
  IF node1 \notin DOMAIN n2c
  THEN DictSet(n2c, node1, {node2})
  ELSE [n2c EXCEPT ![node1] = @ \cup {node2}]

store_del_edge(n2c, node1, node2) ==
  IF node1 \notin DOMAIN n2c THEN n2c ELSE [n2c EXCEPT ![node1] = @ \ {node2}]

\* self._nodes2childrens[node] raises KeyError for a node that is no key
store_out_neighbors_raises(n2c, node) == node \notin DOMAIN n2c
store_out_neighbors(n2c, node) == n2c[node]

store_in_neighbors(n2c, node) == {parent \in DOMAIN n2c : node \in n2c[parent]}

store_edges(n2c) == UNION {{<<n, c>> : c \in n2c[n]} : n \in DOMAIN n2c}

\* len(self._nodes2childrens[node]); KeyError for a node without an entry
store_out_degree(n2c, node) == Cardinality(n2c[node])
store_in_degree(n2c, node) == Cardinality({parent \in DOMAIN n2c : node \in n2c[parent]})

store_n_nodes(n2c) == Cardinality(DOMAIN n2c)
store_n_edges(n2c) == Cardinality(store_edges(n2c))

\* self._nodes2childrens.pop(node, None): never raises
store_del_node_raises(n2c, node) == FALSE
store_del_node(n2c, node) == IF node \in DOMAIN n2c THEN DictDel(n2c, node) ELSE n2c

\* children is None: return; children.discard(node2): never raises
store_del_edge_raises(n2c, node1, node2) == FALSE

(***************************************************************************)
(* SetNodeStore: one set, _nodes.                                          *)
(***************************************************************************)
SetNodeStore_has_node(ns, node) == node \in ns
SetNodeStore_n_nodes(ns) == Cardinality(ns)
SetNodeStore_add_node(ns, node) == ns \cup {node}
\* set.remove raises KeyError for a missing element
SetNodeStore_del_node_raises(ns, node) == node \notin ns
SetNodeStore_del_node(ns, node) == ns \ {node}

(***************************************************************************)
(* DictSetEdgeStore: one dict, _parents, node -> set of children.          *)
(***************************************************************************)
DictSetEdgeStore_has_edge(ps, node1, node2) ==
  node1 \in DOMAIN ps /\ node2 \in ps[node1]

DictSetEdgeStore_edges(ps) == UNION {{<<n, c>> : c \in ps[n]} : n \in DOMAIN ps}
DictSetEdgeStore_n_edges(ps) == Cardinality(DictSetEdgeStore_edges(ps))

DictSetEdgeStore_add_edge(ps, node1, node2) ==
  IF node1 \notin DOMAIN ps
  THEN DictSet(ps, node1, {node2})
  ELSE [ps EXCEPT ![node1] = @ \cup {node2}]

\* Mutant of DictSetEdgeStore_del_edge: nothing is removed.
DictSetEdgeStore_del_edge_none(ps, node1, node2) == ps

\* self._parents[node1].remove(node2): KeyError from the dict or the set
DictSetEdgeStore_del_edge_raises(ps, node1, node2) ==
  node1 \notin DOMAIN ps \/ node2 \notin ps[node1]
DictSetEdgeStore_del_edge(ps, node1, node2) ==
  IF DictSetEdgeStore_del_edge_raises(ps, node1, node2) THEN ps
  ELSE [ps EXCEPT ![node1] = @ \ {node2}]

DictSetEdgeStore_out_degree(ps, node) ==
  IF node \in DOMAIN ps THEN Cardinality(ps[node]) ELSE 0
DictSetEdgeStore_in_degree(ps, node) ==
  Cardinality({parent \in DOMAIN ps : node \in ps[parent]})

DictSetEdgeStore_out_neighbors(ps, node) ==
  IF node \in DOMAIN ps THEN ps[node] ELSE {}

DictSetEdgeStore_in_neighbors(ps, node) ==
  {parent \in DOMAIN ps : node \in ps[parent]}

(***************************************************************************)
(* Graph facade.  A graph value holds the state of its stores:             *)
(*   kind  "combined": node store and edge store are one                   *)
(*         DictSetNodeEdgeStore (the default), state n2c;                  *)
(*         "separate": a SetNodeStore, state ns, and a DictSetEdgeStore,   *)
(*         state ps;                                                       *)
(*   kh    _key_hedge2val of its DictPropertyStore.                        *)
(* An operation that may raise has a companion ..._raises; the operation   *)
(* itself gives the graph the call leaves behind, raised or not.           *)
(***************************************************************************)
EmptyDict == [x \in {} |-> None]

\* Graph(default_weight=default_weight)
GraphNew(default_weight) ==
  [kind |-> "combined", n2c |-> EmptyDict, ns |-> {}, ps |-> EmptyDict,
   kh  |-> IF default_weight # None
           THEN set_property_default(EmptyDict, weight_key, default_weight)
           ELSE EmptyDict]

\* Graph(SetNodeStore(), DictSetEdgeStore(), default_weight=default_weight)
GraphNewSeparate(default_weight) ==
  [GraphNew(default_weight) EXCEPT !.kind = "separate"]

has_node(g, node) ==
  IF g.kind = "combined" THEN store_has_node(g.n2c, node)
  ELSE SetNodeStore_has_node(g.ns, node)
has_edge(g, node1, node2) ==
  IF g.kind = "combined" THEN store_has_edge(g.n2c, node1, node2)
  ELSE DictSetEdgeStore_has_edge(g.ps, node1, node2)
has_weight(g, node1, node2) == has_property(g.kh, weight_key, <<node1, node2>>)
n_nodes(g) ==
  IF g.kind = "combined" THEN store_n_nodes(g.n2c) ELSE SetNodeStore_n_nodes(g.ns)
n_edges(g) ==
  IF g.kind = "combined" THEN store_n_edges(g.n2c) ELSE DictSetEdgeStore_n_edges(g.ps)
nodes_of(g) == IF g.kind = "combined" THEN DOMAIN g.n2c ELSE g.ns
out_neighbors_raises(g, node) ==
  g.kind = "combined" /\ store_out_neighbors_raises(g.n2c, node)
out_neighbors(g, node) ==
  IF g.kind = "combined" THEN store_out_neighbors(g.n2c, node)
  ELSE DictSetEdgeStore_out_neighbors(g.ps, node)
in_neighbors(g, node) ==
  IF g.kind = "combined" THEN store_in_neighbors(g.n2c, node)
  ELSE DictSetEdgeStore_in_neighbors(g.ps, node)
edges(g) ==
  IF g.kind = "combined" THEN store_edges(g.n2c) ELSE DictSetEdgeStore_edges(g.ps)
out_degree(g, node) ==
  IF g.kind = "combined" THEN store_out_degree(g.n2c, node)
  ELSE DictSetEdgeStore_out_degree(g.ps, node)
in_degree(g, node) ==
  IF g.kind = "combined" THEN store_in_degree(g.n2c, node)
  ELSE DictSetEdgeStore_in_degree(g.ps, node)
weight(g, node1, node2, default) ==
  get_property(g.kh, weight_key, <<node1, node2>>, default)

\* self._node_store.add_node(node)
node_store_add_node(g, node) ==
  IF g.kind = "combined" THEN [g EXCEPT !.n2c = store_add_node(@, node)]
  ELSE [g EXCEPT !.ns = SetNodeStore_add_node(@, node)]

\* self._edge_store.add_edge(node1, node2)
edge_store_add_edge(g, node1, node2) ==
  IF g.kind = "combined" THEN [g EXCEPT !.n2c = store_add_edge(@, node1, node2)]
  ELSE [g EXCEPT !.ps = DictSetEdgeStore_add_edge(@, node1, node2)]

\* self._edge_store.del_edge(node1, node2)
edge_store_del_edge_raises(g, node1, node2) ==
  IF g.kind = "combined" THEN store_del_edge_raises(g.n2c, node1, node2)
  ELSE DictSetEdgeStore_del_edge_raises(g.ps, node1, node2)
edge_store_del_edge(g, node1, node2) ==
  IF g.kind = "combined" THEN [g EXCEPT !.n2c = store_del_edge(@, node1, node2)]
  ELSE [g EXCEPT !.ps = DictSetEdgeStore_del_edge(@, node1, node2)]

\* self._node_store.del_node(node)
node_store_del_node_raises(g, node) ==
  IF g.kind = "combined" THEN store_del_node_raises(g.n2c, node)
  ELSE SetNodeStore_del_node_raises(g.ns, node)
node_store_del_node(g, node) ==
  IF node_store_del_node_raises(g, node) THEN g
  ELSE IF g.kind = "combined" THEN [g EXCEPT !.n2c = store_del_node(@, node)]
  ELSE [g EXCEPT !.ns = SetNodeStore_del_node(@, node)]

add_node(g, node) == node_store_add_node(g, node)

\* Mutant of add_edge: the end nodes are not registered.
add_edge_unregistered(g, node1, node2) == edge_store_add_edge(g, node1, node2)

\* add_edge with the weight omitted
add_edge(g, node1, node2) ==
  edge_store_add_edge(node_store_add_node(node_store_add_node(g, node1), node2),
                      node1, node2)

\* Graph.set_property(key, value, *nodes): self._prop_store.set_property(...)
Graph_set_property(g, key, value, nodes) ==
  [g EXCEPT !.kh = set_property(@, key, value, nodes)]

\* Graph.set_property_default(key, value)
Graph_set_property_default(g, key, value) ==
  [g EXCEPT !.kh = set_property_default(@, key, value)]

\* Graph.del_property(key, *nodes)
Graph_del_property(g, key, nodes) ==
  [g EXCEPT !.kh = del_property(@, key, nodes)]

\* Graph.del_property_default(key)
Graph_del_property_default(g, key) ==
  [g EXCEPT !.kh = del_property_default(@, key)]

\* Mutant of set_weight: a missing edge is not added.
set_weight_only(g, node1, node2, w) ==
  Graph_set_property(g, weight_key, w, <<node1, node2>>)

set_weight(g, node1, node2, w) ==
  LET g1 == IF ~has_edge(g, node1, node2) THEN add_edge(g, node1, node2) ELSE g
  IN  Graph_set_property(g1, weight_key, w, <<node1, node2>>)

\* Mutant of add_edge_weight: the weight is set even when it is omitted.
add_edge_weight_always(g, node1, node2, w) ==
  set_weight(add_edge(g, node1, node2), node1, node2, w)

\* add_edge(node1, node2, weight); weight None is the weight omitted
add_edge_weight(g, node1, node2, w) ==
  IF w # None THEN set_weight(add_edge(g, node1, node2), node1, node2, w)
  ELSE add_edge(g, node1, node2)

del_weight(g, node1, node2) ==
  Graph_del_property(g, weight_key, <<node1, node2>>)

\* Mutant of del_edge: the weight is left in the property store.
del_edge_keep_weight(g, node1, node2) == edge_store_del_edge(g, node1, node2)

del_edge_raises(g, node1, node2) == edge_store_del_edge_raises(g, node1, node2)
del_edge(g, node1, node2) ==
  LET g1 == IF has_weight(g, node1, node2) THEN del_weight(g, node1, node2) ELSE g
  IN  edge_store_del_edge(g1, node1, node2)

\* A call of del_edge(self, node1, node2) with the positional arguments
\* args raises TypeError unless there are two of them.
del_edge_call_raises(args) == Len(args) # 2

\* for edge in edges: self.del_edge(edge)
\* The exception the loop ends with, if any, and the graph it leaves.
RECURSIVE del_edges(_, _)
del_edges(g, edge_list) ==
  IF edge_list = <<>> THEN [exc |-> "none", g |-> g]
  ELSE LET args == <<Head(edge_list)>>
       IN  IF del_edge_call_raises(args) THEN [exc |-> "TypeError", g |-> g]
           ELSE IF del_edge_raises(g, args[1], args[2])
           THEN [exc |-> "KeyError", g |-> g]
           ELSE del_edges(del_edge(g, args[1], args[2]), Tail(edge_list))

RECURSIVE add_nodes(_, _)
add_nodes(g, nodes) ==
  IF nodes = {} THEN g
  ELSE LET n == CHOOSE x \in nodes : TRUE IN add_nodes(add_node(g, n), nodes \ {n})

RECURSIVE add_edges(_, _)
add_edges(g, es) ==
  IF es = {} THEN g
  ELSE LET e == CHOOSE x \in es : TRUE
       IN  add_edges(add_edge(g, e[1], e[2]), es \ {e})

RECURSIVE del_edges_each(_, _)
del_edges_each(g, es) ==
  IF es = {} THEN g
  ELSE LET e == CHOOSE x \in es : TRUE
       IN  del_edges_each(del_edge(g, e[1], e[2]), es \ {e})

\* Mutant of del_node: the edges from the in-neighbors are left alone.
del_node_out_only(g, node) ==
  IF out_neighbors_raises(g, node) THEN g
  ELSE node_store_del_node(
         del_edges_each(g, {<<node, neighbor>> : neighbor \in out_neighbors(g, node)}),
         node)

\* del_node after its first loop: the edges from the in-neighbors deleted
del_node_in(g, node) ==
  del_edges_each(g, {<<neighbor, node>> : neighbor \in in_neighbors(g, node)})

\* del_node after its second loop: the edges to the out-neighbors deleted
del_node_out(g, node) ==
  LET g1 == del_node_in(g, node)
  IN  del_edges_each(g1, {<<node, neighbor>> : neighbor \in out_neighbors(g1, node)})

\* KeyError out of out_neighbors (line 212) or out of the node store's
\* del_node (line 215)
del_node_raises(g, node) ==
  \/ out_neighbors_raises(del_node_in(g, node), node)
  \/ node_store_del_node_raises(del_node_out(g, node), node)

del_node(g, node) ==
  IF out_neighbors_raises(del_node_in(g, node), node)
  THEN del_node_in(g, node)
  ELSE node_store_del_node(del_node_out(g, node), node)

\* for node in nodes: self.del_node(node)
\* The exception the loop ends with, if any, and the graph it leaves.
RECURSIVE del_nodes(_, _)
del_nodes(g, node_list) ==
  IF node_list = <<>> THEN [exc |-> "none", g |-> g]
  ELSE IF del_node_raises(g, Head(node_list))
  THEN [exc |-> "KeyError", g |-> del_node(g, Head(node_list))]
  ELSE del_nodes(del_node(g, Head(node_list)), Tail(node_list))

\* set_weight(n1, n2, wts[n1, n2]) for every edge of the domain of the
\* function wts
RECURSIVE set_weight_each(_, _)
set_weight_each(g, wts) ==
  IF DOMAIN wts = {} THEN g
  ELSE LET e == CHOOSE x \in DOMAIN wts : TRUE
       IN  set_weight_each(set_weight(g, e[1], e[2], wts[e]),
                           [x \in DOMAIN wts \ {e} |-> wts[x]])

\* A directed graph built by calls of the facade: Graph(default_weight=1),
\* add_nodes(nodes), add_edges(es), then set_weight for the edges of wts.
directed_graph(nodes, es, wts) ==
  set_weight_each(add_edges(add_nodes(GraphNew(DefaultWeight), nodes), es), wts)

\* A graph definition of the tests: nodes, edges and, if given, dists, the
\* items of a dict in insertion order, each <<<<n1, n2>>, wgt>>.
GrfDef(nodes, es, dists) == [nodes |-> nodes, edges |-> es, dists |-> dists]
NoDists == [is_none |-> TRUE, items |-> <<>>]
Dists(items) == [is_none |-> FALSE, items |-> items]

\* The loop of mk_graph over dists.items(): the weight is set in both
\* directions, a later item overwriting an earlier one.
RECURSIVE set_weights(_, _)
set_weights(g, items) ==
  IF items = <<>> THEN g
  ELSE LET n1 == Head(items)[1][1]
           n2 == Head(items)[1][2]
           wgt == Head(items)[2]
       IN  set_weights(set_weight(set_weight(g, n1, n2, wgt), n2, n1, wgt), Tail(items))

\* mk_graph(grf_def) of the tests: [grf, distf].  Every edge of 'edges' and
\* every key of 'dists' is added in both directions; distf is Graph.weight
\* when 'dists' is given, an empty dict too.
mk_graph(grf_def) ==
  LET keys == IF grf_def.dists.is_none THEN {}
              ELSE {grf_def.dists.items[i][1] : i \in DOMAIN grf_def.dists.items}
      both == {<<e[1], e[2]>> : e \in grf_def.edges \cup keys}
                \cup {<<e[2], e[1]>> : e \in grf_def.edges \cup keys}
      g == add_edges(add_nodes(GraphNew(DefaultWeight), grf_def.nodes), both)
  IN  IF grf_def.dists.is_none THEN [grf |-> g, distf |-> "None"]
      ELSE [grf |-> set_weights(g, grf_def.dists.items), distf |-> "Graph.weight"]

(***************************************************************************)
(* The frontier: a Python list of tuples (distance, node, prev) handled by *)
(* heapq.  Tuples compare lexicographically; ordering None against a node  *)
(* raises TypeError.  Positions are 0-based as in heapq; the sequence is   *)
(* 1-based.                                                                *)
(***************************************************************************)
TupleLtRaises(x, y) ==
  x[1] = y[1] /\ x[2] = y[2] /\ x[3] # y[3] /\ (x[3] = None \/ y[3] = None)

TupleLt(x, y) ==
  IF x[1] # y[1] THEN x[1] < y[1]
  ELSE IF x[2] # y[2] THEN x[2] < y[2]
  ELSE IF x[3] # y[3] THEN x[3] < y[3]
  ELSE FALSE

HeapOk(heap) == [raised |-> FALSE, heap |-> heap]
HeapRaised(heap) == [raised |-> TRUE, heap |-> heap]

\* heapq.heappush and heapq.heappop run the sifts of the _heapq module,
\* which swap entries in place: when a comparison raises, the list holds
\* the entries it held, in the places the swaps made so far have put them.
Swap(heap, i, j) == [heap EXCEPT ![i + 1] = heap[j + 1], ![j + 1] = heap[i + 1]]

\* Mutant of siftdown: the new item stays where it was put.
siftdown_stay(heap, startpos, pos) == HeapOk(heap)

\* The item at pos moves towards startpos while it is less than its parent.
RECURSIVE siftdown(_, _, _)
siftdown(heap, startpos, pos) ==
  IF pos > startpos
  THEN LET parentpos == (pos - 1) \div 2
           newitem == heap[pos + 1]
           parent == heap[parentpos + 1]
       IN  IF TupleLtRaises(newitem, parent) THEN HeapRaised(heap)
           ELSE IF TupleLt(newitem, parent)
                THEN siftdown(Swap(heap, parentpos, pos), startpos, parentpos)
                ELSE HeapOk(heap)
  ELSE HeapOk(heap)

\* The item at pos moves to a leaf, the smaller child taking its place at
\* every level, and is then sifted down from there.
RECURSIVE siftup(_, _, _)
siftup(heap, startpos, pos) ==
  LET endpos == Len(heap)
      childpos == 2 * pos + 1
      rightpos == childpos + 1
  IN  IF childpos < endpos
      THEN IF rightpos < endpos /\ TupleLtRaises(heap[childpos + 1], heap[rightpos + 1])
           THEN HeapRaised(heap)
           ELSE LET c == IF rightpos < endpos
                            /\ ~TupleLt(heap[childpos + 1], heap[rightpos + 1])
                         THEN rightpos ELSE childpos
                IN  siftup(Swap(heap, c, pos), startpos, c)
      ELSE siftdown(heap, startpos, pos)

heappush(heap, item) == siftdown(Append(heap, item), 0, Len(heap))

\* Mutant of heappop: the smallest item is returned and stays in the heap.
heappop_keep(heap) == [raised |-> FALSE, heap |-> heap, item |-> heap[1]]

\* [raised, heap, item]: the heap after the pop and the item popped (none
\* is returned when the pop raised).  The last entry is taken off the list,
\* put in the place of the first, and sifted.
heappop(heap) ==
  LET lastelt == heap[Len(heap)]
      rest == SubSeq(heap, 1, Len(heap) - 1)
  IN  IF rest # <<>>
      THEN LET r == siftup([rest EXCEPT ![1] = lastelt], 0, 0)
           IN  [raised |-> r.raised, heap |-> r.heap, item |-> rest[1]]
      ELSE [raised |-> FALSE, heap |-> rest, item |-> lastelt]

(***************************************************************************)
(* shortest_path_btw_sets.  Optional arguments are records with an is_none *)
(* flag.  is_distance_ok, when given, is the window test of the tests:     *)
(* -1 below lo, +1 above hi, 0 inside.  distance, when given, is           *)
(* Graph.weight.                                                           *)
(***************************************************************************)
Absent == [is_none |-> TRUE, items |-> {}]
Given(items) == [is_none |-> FALSE, items |-> items]
NoWindow == [is_none |-> TRUE, lo |-> 0, hi |-> 0]
Window(lo, hi) == [is_none |-> FALSE, lo |-> lo, hi |-> hi]

is_distance_ok_call(is_distance_ok, l) ==
  IF l < is_distance_ok.lo THEN -1 ELSE IF l > is_distance_ok.hi THEN 1 ELSE 0

ResPending == [kind |-> "pending", path |-> <<>>, dist |-> None]
ResNone == [kind |-> "None", path |-> <<>>, dist |-> None]
ResPath(path, dist) == [kind |-> "path", path |-> path, dist |-> dist]
ResRaise(exc) == [kind |-> exc, path |-> <<>>, dist |-> None]

\* _check_excluded_nodes(label, nodes, excluded_nodes): nodes is a list
\* (begs) or a set (ends); nodes & excluded_nodes is a set either way.
check_excluded_nodes(nodes, len_nodes, excluded_nodes) ==
  LET n_excluded == Cardinality(nodes \cap excluded_nodes)
  IN  IF n_excluded = len_nodes THEN "raise"
      ELSE IF n_excluded > 0 THEN "warn" ELSE "ok"

\* Mutant of Filter_begs: nodes that are not in the graph are kept.
Filter_begs_all(g, begins) == begins

Filter_begs(g, begins) == SelectSeq(begins, LAMBDA beg : has_node(g, beg))
Filter_ends(g, ends_arg) == {end \in ends_arg : has_node(g, end)}

\* Mutant of Seed_spst: the excluded nodes are not seeded.
Seed_spst_empty(excluded_nodes) == EmptyDict

\* spst of an excluded node is None, written <<>>; of a visited node
\* (distance, prev), written <<distance, prev>>.
Seed_spst(excluded_nodes) ==
  IF excluded_nodes.is_none THEN EmptyDict ELSE [node \in excluded_nodes.items |-> <<>>]

Seed_queue(begs) == [i \in 1 .. Len(begs) |-> <<0, begs[i], None>>]

\* The search state after lines 553-571: the locals, where the call stands
\* (pc), its result, and counters of what it has done so far.
SearchState(pc, result, spst, queue, warned) ==
  [pc |-> pc, result |-> result, spst |-> spst, queue |-> queue,
   warned |-> warned, len_cmp |-> 0, popped |-> <<>>,
   n_settled |-> 0, n_expanded |-> 0, n_dist_calls |-> 0, n_pushed |-> 0]

Setup(g, begins, ends_arg, excluded_nodes) ==
  LET begs == Filter_begs(g, begins)
      ends == Filter_ends(g, ends_arg)
      spst == Seed_spst(excluded_nodes)
      chk_b == check_excluded_nodes(Range(begs), Len(begs), DOMAIN spst)
      chk_e == check_excluded_nodes(ends, Cardinality(ends), DOMAIN spst)
      warned == (IF chk_b = "warn" THEN {"begin"} ELSE {})
                \cup (IF chk_e = "warn" THEN {"end"} ELSE {})
  IN  IF Len(begs) = 0 \/ Cardinality(ends) = 0
      THEN SearchState("done", ResNone, EmptyDict, <<>>, {})
      ELSE IF chk_b = "raise"
      THEN SearchState("done", ResRaise("ValueError"), spst, <<>>, {})
      ELSE IF chk_e = "raise"
      THEN SearchState("done", ResRaise("ValueError"), spst, <<>>, warned \ {"end"})
      ELSE SearchState("loop", ResPending, spst, Seed_queue(begs), warned)

\* What the loop reads and never writes.
SearchEnv(g, ends_arg, distance, excluded_edges, is_distance_ok) ==
  [g |-> g, ends |-> Filter_ends(g, ends_arg), distance |-> distance,
   excl_edges |-> excluded_edges, is_distance_ok |-> is_distance_ok]

\* Mutants of TooLong: the comparison slips by one.
TooLong_from0(len_cmp) == len_cmp >= 0
TooLong_above1(len_cmp) == len_cmp > 1

TooLong(len_cmp) == len_cmp >= 1

\* Mutant of Visited: a popped entry is never taken for stale.
Visited_never(spst, node) == FALSE

Visited(spst, node) == node \in DOMAIN spst

\* Mutant of SuitableEnd: the verdict is not consulted.
SuitableEnd_any(ends, node, len_cmp) == node \in ends

SuitableEnd(ends, node, len_cmp) == node \in ends /\ len_cmp = 0

RECURSIVE rev_path(_, _)
rev_path(spst, prev) ==
  IF prev # None THEN <<prev>> \o rev_path(spst, spst[prev][2]) ELSE <<>>

\* Mutant of Reversed: the path is left end first.
Reversed_not(seq) == seq

Reversed(seq) == [i \in 1 .. Len(seq) |-> seq[Len(seq) + 1 - i]]

\* Mutant of NbrOk: the excluded edge is looked up reversed.
NbrOk_reversed(spst, excl_edges, node, nbr) ==
  nbr \notin DOMAIN spst
  /\ (excl_edges.is_none \/ <<nbr, node>> \notin excl_edges.items)

NbrOk(spst, excl_edges, node, nbr) ==
  nbr \notin DOMAIN spst
  /\ (excl_edges.is_none \/ <<node, nbr>> \notin excl_edges.items)

\* Mutant of dist_edge: the distance argument is ignored.
dist_edge_unit(env, node, nbr) == 1

dist_edge(env, node, nbr) ==
  IF env.distance = "None" THEN 1 ELSE weight(env.g, node, nbr, None)

\* The for loop of lines 597-607 over the neighbors in iteration order.
RECURSIVE Explore(_, _, _, _, _, _)
Explore(env, spst, node, dist_node, order, acc) ==
  IF order = <<>> \/ acc.raised THEN acc
  ELSE LET nbr == Head(order)
       IN  IF NbrOk(spst, env.excl_edges, node, nbr)
           THEN LET d_e == dist_edge(env, node, nbr)
                    h == heappush(acc.queue, <<dist_node + d_e, nbr, node>>)
                    calls == acc.n_dist_calls + (IF env.distance = "None" THEN 0 ELSE 1)
                IN  IF d_e = None
                    THEN [acc EXCEPT !.raised = TRUE, !.n_dist_calls = calls]
                    ELSE Explore(env, spst, node, dist_node, Tail(order),
                                 [raised |-> h.raised, queue |-> h.heap,
                                  n_dist_calls |-> calls, n_pushed |-> acc.n_pushed + 1])
           ELSE Explore(env, spst, node, dist_node, Tail(order), acc)

\* Mutant of LoopTest: the loop stops with one entry left.
LoopTest_one(s) ==
  IF s.pc = "loop" /\ Len(s.queue) <= 1
  THEN [s EXCEPT !.pc = "done", !.result = ResNone]
  ELSE s

\* while len(queue) > 0 fails: return None
LoopTest(s) ==
  IF s.pc = "loop" /\ Len(s.queue) = 0
  THEN [s EXCEPT !.pc = "done", !.result = ResNone]
  ELSE s

\* One iteration of the while loop (lines 573-607) followed by the loop
\* test; order is the order in which out_neighbors yields the children of
\* the popped node.
LoopBody(env, s, order) ==
  LET p == heappop(s.queue)
      dist_node == p.item[1]
      node == p.item[2]
      prev == p.item[3]
      len_cmp == IF ~env.is_distance_ok.is_none
                 THEN is_distance_ok_call(env.is_distance_ok, dist_node)
                 ELSE 0
      s1 == [s EXCEPT !.queue = p.heap, !.len_cmp = len_cmp, !.popped = p.item]
      spst1 == DictSet(s.spst, node, <<dist_node, prev>>)
      x == Explore(env, spst1, node, dist_node, order,
                   [raised |-> FALSE, queue |-> p.heap,
                    n_dist_calls |-> s.n_dist_calls, n_pushed |-> s.n_pushed])
  IN  IF p.raised
      THEN [s EXCEPT !.pc = "done", !.queue = p.heap,
                     !.result = ResRaise("TypeError")]
      ELSE IF TooLong(len_cmp)
      THEN [s1 EXCEPT !.pc = "done", !.result = ResNone]
      ELSE IF Visited(s.spst, node)
      THEN LoopTest(s1)
      ELSE IF SuitableEnd(env.ends, node, len_cmp)
      THEN [s1 EXCEPT !.pc = "done", !.spst = spst1, !.n_settled = @ + 1,
                      !.result = ResPath(Reversed(<<node>> \o rev_path(spst1, prev)),
                                         dist_node)]
      ELSE IF x.raised
      THEN [s1 EXCEPT !.pc = "done", !.spst = spst1, !.queue = x.queue,
                      !.n_settled = @ + 1,
                      !.n_expanded = @ + 1, !.n_dist_calls = x.n_dist_calls,
                      !.n_pushed = x.n_pushed, !.result = ResRaise("TypeError")]
      ELSE LoopTest([s1 EXCEPT !.spst = spst1, !.queue = x.queue,
                               !.n_settled = @ + 1, !.n_expanded = @ + 1,
                               !.n_dist_calls = x.n_dist_calls,
                               !.n_pushed = x.n_pushed])

(***************************************************************************)
(* The inputs of a call: a directed graph (every node of Node added, at    *)
(* most MaxEdges edges, explicit weights on some of them) or a graph as    *)
(* the tests' mk_graph builds it, and the arguments of                     *)
(* shortest_path_btw_sets.                                                 *)
(***************************************************************************)
Pairs == {e \in Node \X Node : e[1] # e[2]}

\* Edge sets without and with self-loops.
EdgeSets(k) == SubsetsUpTo(Pairs, k)
LoopEdgeSets(k) == SubsetsUpTo(Node \X Node, k)

\* Explicit weights for at most one of the edges es.
WeightFns(es) == UNION {[W -> Weights] : W \in SubsetsUpTo(es, 1)}

\* Nonempty sets of at most k elements of S.
SomeUpTo(S, k) == SubsetsUpTo(S, k) \ {{}}

\* The windows of is_distance_ok: lo <= hi, both among the distances of a
\* graph of NumNodes nodes with unit distances.
Windows == UNION {{Window(lo, hi) : hi \in lo .. NumNodes - 1} : lo \in 0 .. NumNodes - 1}

VARIABLES
  nodes2childrens,  \* DictSetNodeEdgeStore._nodes2childrens of the graph
  key_hedge2val,    \* DictPropertyStore._key_hedge2val of the graph
  begins,           \* argument begins, a list of nodes
  ends_arg,         \* argument ends, a collection of nodes
  distance,         \* argument distance: "None" or "Graph.weight"
  excluded_nodes,   \* argument excluded_nodes
  excluded_edges,   \* argument excluded_edges
  is_distance_ok,   \* argument is_distance_ok
  search,           \* the call: pc, result, locals spst and queue, counters
  store_kind,       \* which stores the graph has: "combined" or "separate"
  set_nodes,        \* SetNodeStore._nodes of a graph with separate stores
  parents,          \* DictSetEdgeStore._parents of a graph with separate stores
  last_op,          \* the last operation called on the graph or on a store
  visitor           \* the generator a call of visit_breadth_first returned

vars == <<nodes2childrens, key_hedge2val, begins, ends_arg, distance,
          excluded_nodes, excluded_edges, is_distance_ok, search,
          store_kind, set_nodes, parents, last_op, visitor>>

graph == [kind |-> store_kind, n2c |-> nodes2childrens, ns |-> set_nodes,
          ps |-> parents, kh |-> key_hedge2val]

\* An operation called with arguments args: the exception it raised, if
\* any, and what it returned (None when it returns nothing).
Op(op, args, exc, ret) == [op |-> op, args |-> args, exc |-> exc, ret |-> ret]
\* No operation yet.
NoOp == Op("none", <<>>, "none", None)

env == SearchEnv(graph, ends_arg, distance, excluded_edges, is_distance_ok)

NotCalled == SearchState("call", ResPending, EmptyDict, <<>>, {})

\* visit_breadth_first has not been called.
NotVisiting ==
  [pc |-> "none", start |-> None, queue |-> <<>>, visited |-> {}, node |-> None,
   exc |-> "none", yielded |-> <<>>, changed |-> FALSE]

\* A directed graph is searched with distance = Graph.weight when it has
\* explicit weights.
DistanceFor(wts) == IF DOMAIN wts = {} THEN "None" ELSE "Graph.weight"

\* The graph g and the arguments of the call.
InitOf(g, bs, en, dist, exn, exe, ok) ==
      /\ nodes2childrens = g.n2c
      /\ key_hedge2val = g.kh
      /\ begins = bs
      /\ ends_arg = en
      /\ distance = dist
      /\ excluded_nodes = exn
      /\ excluded_edges = exe
      /\ is_distance_ok = ok
      /\ search = NotCalled
      /\ store_kind = g.kind
      /\ set_nodes = g.ns
      /\ parents = g.ps
      /\ last_op = NoOp
      /\ visitor = NotVisiting

\* A directed graph on the nodes of Node, then the arguments of the call.
InitWith(es, wts, bs, en, dist, exn, exe, ok) ==
  \E g \in {directed_graph(Node, es, wts)} : InitOf(g, bs, en, dist, exn, exe, ok)

\* The dists of a graph definition: none, an empty dict, one item, or the
\* two directions of one pair of nodes with a weight each.
TestDists ==
  {NoDists, Dists(<<>>)}
  \cup {Dists(<<<<e, w>>>>) : e \in {p \in Pairs : p[1] < p[2]}, w \in Weights}
  \cup {Dists(<<<<e, w[1]>>, <<<<e[2], e[1]>>, w[2]>>>>) :
          e \in {p \in Pairs : p[1] < p[2]}, w \in Weights \X Weights}

\* grf, distf = mk_graph(grf_def); shortest_path(grf, a, b, distf), as the
\* tests call it
InitTests ==
  \E es \in SubsetsUpTo({p \in Pairs : p[1] < p[2]}, 1) : \E dists \in TestDists :
  \E a, b \in Node :
  \E r \in {mk_graph(GrfDef(Node, es, dists))} :
    InitOf(r.grf, <<a>>, {b}, r.distf, Absent, Absent, NoWindow)

\* shortest_path(graph, a, b, distance) on weighted graphs
InitPlain ==
  \E es \in EdgeSets(MaxEdges) : \E wts \in WeightFns(es) : \E a, b \in Node :
    InitWith(es, wts, <<a>>, {b}, DistanceFor(wts), Absent, Absent, NoWindow)

\* shortest_path(graph, a, b) on graphs with self-loops
InitLoops ==
  \E es \in LoopEdgeSets(MaxEdges) : \E a, b \in Node :
    InitWith(es, EmptyDict, <<a>>, {b}, "None", Absent, Absent, NoWindow)

\* shortest_path(graph, a, b, excluded_nodes=X)
InitExclNodes ==
  \E es \in EdgeSets(MaxEdges) : \E a, b \in Node :
  \E X \in SomeUpTo(ArgNode, MaxExcluded) :
    InitWith(es, EmptyDict, <<a>>, {b}, "None", Given(X), Absent, NoWindow)

\* shortest_path(graph, a, b, excluded_edges=E)
InitExclEdges ==
  \E es \in EdgeSets(MaxEdges) : \E a, b \in ArgNode :
  \E E \in SomeUpTo(es, MaxExcluded) :
    InitWith(es, EmptyDict, <<a>>, {b}, "None", Absent, Given(E), NoWindow)

\* shortest_path(graph, a, b, Graph.weight, is_distance_ok=window): every
\* edge has the default weight
InitWindow ==
  \E es \in EdgeSets(MaxEdges) : \E a, b \in Node : \E ok \in Windows :
    InitWith(es, EmptyDict, <<a>>, {b}, "Graph.weight", Absent, Absent, ok)

\* No excluded node, or one.
OneExcluded == {Absent} \cup {Given({x}) : x \in ArgNode}

\* shortest_path_btw_sets(graph, [a, b], [c], None, excluded_nodes): two
\* begin entries (the same node twice when a = b)
InitBegins ==
  \E es \in EdgeSets(MaxEdges - 1) : \E a, b, c \in ArgNode : \E exn \in OneExcluded :
    InitWith(es, EmptyDict, <<a, b>>, {c}, "None", exn, Absent, NoWindow)

\* shortest_path_btw_sets(graph, [a], [c, d], None, excluded_nodes)
InitEnds ==
  \E es \in EdgeSets(MaxEdges - 1) : \E a, c, d \in ArgNode : \E exn \in OneExcluded :
    /\ c < d
    /\ InitWith(es, EmptyDict, <<a>>, {c, d}, "None", exn, Absent, NoWindow)

\* shortest_path_btw_sets(graph, [a, b], [c], distance) on weighted graphs
InitWeighted ==
  \E es \in EdgeSets(MaxEdges - 1) : \E wts \in WeightFns(es) :
  \E a, b, c \in ArgNode :
    InitWith(es, wts, <<a, b>>, {c}, DistanceFor(wts), Absent, Absent, NoWindow)

Init ==
  \/ InitPlain \/ InitLoops \/ InitExclNodes \/ InitExclEdges \/ InitWindow
  \/ InitBegins \/ InitEnds \/ InitWeighted \/ InitTests

\* Mutant of Call: the excluded edges are deleted from the graph.
Call_deleting ==
  /\ search.pc = "call"
  /\ search' = Setup(graph, begins, ends_arg, excluded_nodes)
  /\ nodes2childrens' =
       del_edges_each(graph, IF excluded_edges.is_none THEN {}
                             ELSE excluded_edges.items).n2c
  /\ UNCHANGED <<key_hedge2val, begins, ends_arg, distance,
                 excluded_nodes, excluded_edges, is_distance_ok,
                 store_kind, set_nodes, parents, last_op, visitor>>

\* Lines 553-571: the call up to the first loop test.
Call ==
  /\ search.pc = "call"
  /\ search' = Setup(graph, begins, ends_arg, excluded_nodes)
  /\ UNCHANGED <<nodes2childrens, key_hedge2val, begins, ends_arg, distance,
                 excluded_nodes, excluded_edges, is_distance_ok,
                 store_kind, set_nodes, parents, last_op, visitor>>

\* The node the next pop yields, when the pop does not raise.
NextNode == heappop(search.queue).item[2]

\* Lines 573-607: one iteration of the while loop.
Iterate ==
  /\ search.pc = "loop"
  /\ \E order \in Perms(out_neighbors(graph, NextNode)) :
       search' = LoopBody(env, search, order)
  /\ UNCHANGED <<nodes2childrens, key_hedge2val, begins, ends_arg, distance,
                 excluded_nodes, excluded_edges, is_distance_ok,
                 store_kind, set_nodes, parents, last_op, visitor>>

Next == Call \/ Iterate

Spec == Init /\ [][Next]_vars

(***************************************************************************)
(* What the claims speak of: the call's outcome and, independently of the  *)
(* search, the paths of the graph.                                         *)
(***************************************************************************)
Done == search.pc = "done"
Returned == Done /\ search.result.kind \in {"None", "path"}
ReturnedPath == Done /\ search.result.kind = "path"
ReturnedNone == Done /\ search.result.kind = "None"

\* The begin and end nodes that are nodes of the graph.
begs == Filter_begs(graph, begins)
ends == Filter_ends(graph, ends_arg)
\* The excluded nodes and edges as sets (none when the argument is None).
ExclNodes == IF excluded_nodes.is_none THEN {} ELSE excluded_nodes.items
ExclEdges == IF excluded_edges.is_none THEN {} ELSE excluded_edges.items

\* The distance of edge (u, v) as the call's distance argument gives it.
EdgeDistance(g, u, v) == IF distance = "None" THEN 1 ELSE weight(g, u, v, None)

\* Larger than the distance of any path without a repeated node.
Far == (NumNodes + 1) * (MaxWeight + 1)

\* Edge (u, v) of g may be used by a path that avoids X and E.
Usable(g, X, E, u, v) ==
  has_edge(g, u, v) /\ u \notin X /\ v \notin X /\ <<u, v>> \notin E

\* BestWithin(g, X, E, k)[v]: the least total distance over all paths of at
\* most k edges from a begin node to v that avoid the nodes X and the edges
\* E of g; Far or more when there is none.
RECURSIVE BestWithin(_, _, _, _)
BestWithin(g, X, E, k) ==
  IF k = 0
  THEN [v \in Node |-> IF v \in Range(begs) \ X THEN 0 ELSE Far]
  ELSE LET B == BestWithin(g, X, E, k - 1)
       IN  [v \in Node |->
              Min({B[v]} \cup {B[u] + EdgeDistance(g, u, v) :
                                 u \in {w \in Node : Usable(g, X, E, w, v)}})]

\* Paths of more than NumNodes - 1 edges repeat a node, and distances are
\* not negative: NumNodes edges are enough.
Best(g, X, E) == BestWithin(g, X, E, NumNodes)

\* The least total distance from a begin node to an end node, Far or more
\* when no end node is reachable.
BestDist(g, X, E) == Min({Far} \cup {Best(g, X, E)[e] : e \in ends \ X})

RECURSIVE PathDistance(_, _)
PathDistance(g, path) ==
  IF Len(path) <= 1 THEN 0
  ELSE EdgeDistance(g, path[1], path[2]) + PathDistance(g, Tail(path))

PathEdges(path) == {<<path[i], path[i + 1]>> : i \in 1 .. Len(path) - 1}

(***************************************************************************)
(* C1: when the call returns (path, d) and is_distance_ok is absent, d is  *)
(* the least total distance over all paths from a begin node to an end     *)
(* node that avoid the excluded nodes and edges.                           *)
(***************************************************************************)
C1_ShortestDistance ==
  (ReturnedPath /\ is_distance_ok.is_none)
    => search.result.dist = BestDist(graph, ExclNodes, ExclEdges)

\* A returned path that is strictly shorter than its number of edges times
\* the default weight would suggest is not needed; the case is: a weighted
\* graph where the path returned has two edges or more.
C1_Witness ==
  /\ ReturnedPath /\ is_distance_ok.is_none
  /\ distance = "Graph.weight"
  /\ Len(search.result.path) >= 3
  /\ has_edge(graph, search.result.path[1], search.result.path[Len(search.result.path)])

(***************************************************************************)
(* C2: a returned path is not empty, starts at a begin node of the graph,  *)
(* ends at an end node, follows edges of the graph, and d is the sum of    *)
(* the distances of its edges.                                             *)
(***************************************************************************)
C2_PathWellFormed ==
  ReturnedPath =>
    LET path == search.result.path
    IN  /\ Len(path) >= 1
        /\ path[1] \in Range(begins) /\ has_node(graph, path[1])
        /\ path[Len(path)] \in ends_arg /\ has_node(graph, path[Len(path)])
        /\ \A e \in PathEdges(path) : has_edge(graph, e[1], e[2])
        /\ search.result.dist = PathDistance(graph, path)

C2_Witness ==
  /\ ReturnedPath
  /\ Len(search.result.path) >= 3
  /\ distance = "Graph.weight"
  /\ search.result.dist # Len(search.result.path) - 1

(***************************************************************************)
(* C3 (as stated): shortest_path(G, a, a) with no exclusions and no        *)
(* is_distance_ok returns None.                                            *)
(***************************************************************************)
SelfCall ==
  /\ Len(begins) = 1 /\ begins[1] \in Node /\ ends_arg = {begins[1]}
  /\ excluded_nodes.is_none /\ excluded_edges.is_none /\ is_distance_ok.is_none

C3_SelfPathIsNone == (Done /\ SelfCall) => search.result = ResNone

(***************************************************************************)
(* C3 (amended): shortest_path(G, a, a) with no exclusions and no          *)
(* is_distance_ok returns ([a], 0), the path of no edge; it never returns  *)
(* None and never a cycle through a.                                       *)
(***************************************************************************)
C3_SelfPathIsTrivial ==
  (Done /\ SelfCall) => search.result = ResPath(<<begins[1]>>, 0)

\* The call has returned for a node a that lies on a cycle a -> b -> a.
C3_Witness ==
  /\ Done /\ SelfCall
  /\ \E b \in Node \ {begins[1]} :
       has_edge(graph, begins[1], b) /\ has_edge(graph, b, begins[1])

(***************************************************************************)
(* C4: when every begin node of the graph is excluded, or every end node   *)
(* of the graph is excluded, the call raises the exclusion error           *)
(* (ValueError) before any search step.                                    *)
(***************************************************************************)
AllExcluded ==
  /\ Len(begs) > 0 /\ ends # {}
  /\ (Range(begs) \subseteq ExclNodes \/ ends \subseteq ExclNodes)

C4_AllExcludedRaises ==
  (Done /\ AllExcluded) =>
    /\ search.result = ResRaise("ValueError")
    /\ search.popped = <<>> /\ search.n_settled = 0

(***************************************************************************)
(* C5: a returned path contains no excluded node, also when some but not   *)
(* all of the begin or end nodes are excluded.                             *)
(***************************************************************************)
C5_NoExcludedNodeOnPath ==
  ReturnedPath => Range(search.result.path) \cap ExclNodes = {}

\* A path of an edge or more was returned although a begin or end node is
\* excluded.
C5_Witness ==
  /\ ReturnedPath
  /\ Len(search.result.path) >= 2
  /\ (Range(begs) \cup ends) \cap ExclNodes # {}

(***************************************************************************)
(* C6: with excluded_edges = E the call returns what the same call returns *)
(* on the graph with the edges of E deleted and no excluded edges: None    *)
(* when that one returns None, else the same total distance; and the       *)
(* returned path uses no edge of E.                                        *)
(***************************************************************************)
\* Every result the call can end with from search state s, over all orders
\* in which out_neighbors may yield.
RECURSIVE RunAll(_, _)
RunAll(e, s) ==
  IF s.pc # "loop" THEN {s.result}
  ELSE UNION {RunAll(e, LoopBody(e, s, order)) :
                order \in Perms(out_neighbors(e.g, heappop(s.queue).item[2]))}

GraphWithout(E) == del_edges_each(graph, E)

ResultsWithout(E) ==
  RunAll(SearchEnv(GraphWithout(E), ends_arg, distance, Absent, is_distance_ok),
         Setup(GraphWithout(E), begins, ends_arg, excluded_nodes))

C6_ExcludedEdgesAsDeleted ==
  (Returned /\ ~excluded_edges.is_none) =>
    /\ \A r \in ResultsWithout(ExclEdges) :
         r.kind = search.result.kind /\ r.dist = search.result.dist
    /\ PathEdges(search.result.path) \cap ExclEdges = {}

\* The excluded edges forced a longer path than the graph has.
C6_Witness ==
  /\ ReturnedPath /\ ~excluded_edges.is_none
  /\ search.result.dist > BestDist(graph, ExclNodes, {})

(***************************************************************************)
(* C7: when is_distance_ok returns +1 for the distance of the entry that   *)
(* is popped, that same iteration returns None: no node is settled, no     *)
(* neighbor is expanded, nothing is pushed and distance is not called,     *)
(* whatever the frontier still holds.                                      *)
(***************************************************************************)
NextPop == heappop(search.queue)

NextVerdict ==
  IF is_distance_ok.is_none THEN 0
  ELSE is_distance_ok_call(is_distance_ok, NextPop.item[1])

TooLongNext == search.pc = "loop" /\ ~NextPop.raised /\ NextVerdict = 1

C7_TooLongStopsAtOnce ==
  [][TooLongNext =>
       /\ search'.pc = "done" /\ search'.result = ResNone
       /\ search'.spst = search.spst
       /\ search'.queue = NextPop.heap
       /\ search'.n_settled = search.n_settled
       /\ search'.n_expanded = search.n_expanded
       /\ search'.n_pushed = search.n_pushed
       /\ search'.n_dist_calls = search.n_dist_calls]_vars

\* The call returned None on a +1 verdict while an end node was the entry
\* popped or still in the frontier, after distance had been called.
C7_Witness ==
  /\ ReturnedNone /\ search.len_cmp = 1
  /\ search.n_dist_calls >= 1
  /\ \/ search.popped[2] \in ends
     \/ \E i \in DOMAIN search.queue : search.queue[i][2] \in ends

(***************************************************************************)
(* C8: an end node popped with verdict -1 is not returned but settled and  *)
(* expanded like any other node; so a returned end node has its shortest   *)
(* distance as d and that distance is judged 0, and the call returns None  *)
(* when the shortest distance of every reachable end node is judged -1.    *)
(***************************************************************************)
TooShortEndNext ==
  /\ search.pc = "loop" /\ ~NextPop.raised /\ NextVerdict = -1
  /\ NextPop.item[2] \in ends
  /\ NextPop.item[2] \notin DOMAIN search.spst

C8_TooShortEndStep ==
  TooShortEndNext =>
    LET node == NextPop.item[2]
        pushed == {nbr \in out_neighbors(graph, node) :
                     /\ nbr \notin DOMAIN search.spst \cup {node}
                     /\ <<node, nbr>> \notin ExclEdges}
    IN  /\ search'.result.kind # "path"
        /\ search'.spst = DictSet(search.spst, node, <<NextPop.item[1], NextPop.item[3]>>)
        /\ search'.n_settled = search.n_settled + 1
        /\ search'.n_expanded = search.n_expanded + 1
        /\ search'.result.kind # "TypeError"
             => search'.n_pushed = search.n_pushed + Cardinality(pushed)

C8_OnlyShortestJudged ==
  (Done /\ ~is_distance_ok.is_none /\ search.result.kind # "ValueError") =>
    LET best == Best(graph, ExclNodes, ExclEdges)
        last == search.result.path[Len(search.result.path)]
    IN  /\ ReturnedPath =>
              /\ search.result.dist = best[last]
              /\ is_distance_ok_call(is_distance_ok, best[last]) = 0
        /\ (\A e \in ends \ ExclNodes :
              best[e] < Far => is_distance_ok_call(is_distance_ok, best[e]) = -1)
             => ReturnedNone

C8_TooShortEnds == []C8_OnlyShortestJudged /\ [][C8_TooShortEndStep]_vars

\* None was returned although an end node was settled at a too short
\* distance and an edge into it from a settled node gives an acceptable
\* longer distance.
C8_Witness ==
  /\ ReturnedNone /\ ~is_distance_ok.is_none
  /\ \E e \in ends :
       /\ e \in DOMAIN search.spst /\ search.spst[e] # <<>>
       /\ is_distance_ok_call(is_distance_ok, search.spst[e][1]) = -1
       /\ \E u \in DOMAIN search.spst \ {e} :
            /\ search.spst[u] # <<>> /\ has_edge(graph, u, e)
            /\ is_distance_ok_call(is_distance_ok,
                                   search.spst[u][1] + EdgeDistance(graph, u, e)) = 0

(***************************************************************************)
(* C9: shortest_path(G, a, b) for distinct nodes a, b of G, with no        *)
(* exclusions and no is_distance_ok, returns None exactly when G has no    *)
(* directed path from a to b, and returns a path otherwise.                *)
(***************************************************************************)
PlainCall ==
  /\ Len(begins) = 1 /\ begins[1] \in Node
  /\ Cardinality(ends_arg) = 1 /\ ends_arg \subseteq Node \ {begins[1]}
  /\ excluded_nodes.is_none /\ excluded_edges.is_none /\ is_distance_ok.is_none

\* The nodes reachable from the nodes S by at most k edges of g.
RECURSIVE ReachWithin(_, _, _)
ReachWithin(g, S, k) ==
  IF k = 0 THEN S
  ELSE LET R == ReachWithin(g, S, k - 1)
       IN  R \cup UNION {out_neighbors(g, n) : n \in R}

HasPath(g, a, b) == b \in ReachWithin(g, {a}, NumNodes)

C9_NoneIffNoPath ==
  (Done /\ PlainCall) =>
    LET connected == \E b \in ends_arg : HasPath(graph, begins[1], b)
    IN  /\ ReturnedNone <=> ~connected
        /\ ReturnedPath <=> connected

\* A path over an intermediate node was returned.
C9_Witness == Done /\ PlainCall /\ ReturnedPath /\ Len(search.result.path) >= 3

(***************************************************************************)
(* C10: no step of a call changes the graph: its nodes, its edges, its     *)
(* stored weights and its property defaults stay as they were.             *)
(***************************************************************************)
C10_GraphUnchanged ==
  [][nodes2childrens' = nodes2childrens /\ key_hedge2val' = key_hedge2val]_vars

\* A call with excluded edges has ended after reading neighbors and weights
\* of the graph.
C10_Witness ==
  /\ Done /\ search.n_expanded >= 2 /\ edges(graph) # {}
  /\ \E e \in ExclEdges : has_edge(graph, e[1], e[2])

(***************************************************************************)
(* C11: begin and end nodes that are not nodes of the graph are dropped    *)
(* without error: they never enter the frontier, the tree or a path, and   *)
(* an exclusion error is raised only when the begin (end) nodes that are   *)
(* in the graph are all excluded.  When no begin node or no end node is    *)
(* left, the call returns None at once, before any search step and         *)
(* whatever the exclusion arguments are.                                   *)
(***************************************************************************)
BeginsInGraph == {begins[i] : i \in {j \in DOMAIN begins : has_node(graph, begins[j])}}
EndsInGraph == {e \in ends_arg : has_node(graph, e)}

C11_AbsentNodesDropped ==
  search.pc # "call" =>
    /\ (BeginsInGraph = {} \/ EndsInGraph = {}) =>
         /\ Done
         /\ search.result = ResNone
         /\ search.popped = <<>> /\ search.queue = <<>> /\ search.spst = EmptyDict
         /\ search.n_settled = 0 /\ search.n_pushed = 0 /\ search.n_dist_calls = 0
         /\ search.warned = {}
    /\ \A i \in DOMAIN search.queue : has_node(graph, search.queue[i][2])
    /\ \A n \in DOMAIN search.spst : search.spst[n] # <<>> => has_node(graph, n)
    /\ \A n \in Range(search.result.path) : has_node(graph, n)
    /\ search.result.kind = "ValueError" =>
         \/ BeginsInGraph # {} /\ BeginsInGraph \subseteq ExclNodes
         \/ EndsInGraph # {} /\ EndsInGraph \subseteq ExclNodes

\* The call has returned None for two begin entries that are both no nodes
\* of the graph, with an end node that is one and an exclusion given.
C11_Witness ==
  /\ ReturnedNone
  /\ Len(begins) = 2 /\ BeginsInGraph = {}
  /\ EndsInGraph # {}
  /\ ~excluded_nodes.is_none /\ excluded_nodes.items \cap Range(begins) # {}

(***************************************************************************)
(* The Graph facade as a state machine: a Graph with the default stores or *)
(* with separate stores, constructed as the tests do, and one action per   *)
(* call of a modifying method.  shortest_path_btw_sets is not called.      *)
(***************************************************************************)
\* The weights a caller sets: the default weight and another one.
GraphWeights == {DefaultWeight, MaxWeight}
\* The nodes a caller names.
GraphNode == 1 .. (NumNodes - 1)

\* The variables of a call of shortest_path_btw_sets and the generator of
\* visit_breadth_first, when there is neither.
NoSearch ==
  /\ begins = <<>> /\ ends_arg = {} /\ distance = "None"
  /\ excluded_nodes = Absent /\ excluded_edges = Absent
  /\ is_distance_ok = NoWindow /\ search = NotCalled
  /\ visitor = NotVisiting

SearchUnchanged ==
  UNCHANGED <<begins, ends_arg, distance, excluded_nodes, excluded_edges,
              is_distance_ok, search, visitor>>

\* The graph becomes g.
SetGraph(g) ==
  /\ nodes2childrens' = g.n2c
  /\ set_nodes' = g.ns
  /\ parents' = g.ps
  /\ key_hedge2val' = g.kh
  /\ store_kind' = g.kind

GraphInit ==
  /\ NoSearch
  /\ \E g \in {GraphNew(DefaultWeight), GraphNewSeparate(DefaultWeight),
               GraphNew(None), GraphNewSeparate(None)} :
       /\ nodes2childrens = g.n2c /\ set_nodes = g.ns /\ parents = g.ps
       /\ key_hedge2val = g.kh /\ store_kind = g.kind
  /\ last_op = NoOp

KeyErrorIf(raises) == IF raises THEN "KeyError" ELSE "none"

\* The graphs of this state machine have fewer than MaxEdges edges.
RoomFor(node1, node2) ==
  has_edge(graph, node1, node2) \/ n_edges(graph) < MaxEdges - 1

GraphAddNode ==
  \E node \in GraphNode :
    /\ SetGraph(add_node(graph, node))
    /\ last_op' = Op("add_node", <<node>>, "none", None)
    /\ SearchUnchanged

\* last_op records the nodes an operation was called with; of a weight
\* argument, whether add_edge was given one.
GraphAddEdge ==
  \E node1, node2 \in GraphNode : \E w \in {None} \cup GraphWeights :
    /\ RoomFor(node1, node2)
    /\ SetGraph(add_edge_weight(graph, node1, node2, w))
    /\ last_op' = Op(IF w = None THEN "add_edge" ELSE "add_edge_weight",
                     <<node1, node2>>, "none", None)
    /\ SearchUnchanged

GraphSetWeight ==
  \E node1, node2 \in GraphNode : \E w \in GraphWeights :
    /\ RoomFor(node1, node2)
    /\ SetGraph(set_weight(graph, node1, node2, w))
    /\ last_op' = Op("set_weight", <<node1, node2>>, "none", None)
    /\ SearchUnchanged

\* ret records the weight stored for the edge before the call, None when
\* none was.
GraphDelEdge ==
  \E node1, node2 \in GraphNode :
    /\ SetGraph(del_edge(graph, node1, node2))
    /\ last_op' = Op("del_edge", <<node1, node2>>,
                     KeyErrorIf(del_edge_raises(graph, node1, node2)),
                     IF has_weight(graph, node1, node2)
                     THEN weight(graph, node1, node2, None) ELSE None)
    /\ SearchUnchanged

\* The edges of g that begin or end at node.
EdgesAt(g, node) == {e \in edges(g) : e[1] = node \/ e[2] = node}

\* ret records how many edges the node had before the call.
GraphDelNode ==
  \E node \in GraphNode :
    /\ SetGraph(del_node(graph, node))
    /\ last_op' = Op("del_node", <<node>>,
                     KeyErrorIf(del_node_raises(graph, node)),
                     Cardinality(EdgesAt(graph, node)))
    /\ SearchUnchanged

GraphDelWeight ==
  \E node1, node2 \in GraphNode :
    /\ SetGraph(del_weight(graph, node1, node2))
    /\ last_op' = Op("del_weight", <<node1, node2>>, "none", None)
    /\ SearchUnchanged

GraphNext ==
  \/ GraphAddNode \/ GraphAddEdge \/ GraphSetWeight \/ GraphDelEdge \/ GraphDelNode
  \/ GraphDelWeight

GraphSpec == GraphInit /\ [][GraphNext]_vars

(***************************************************************************)
(* The whole modification API of the facade: the operations above, the     *)
(* property methods that set_weight and del_weight are written with,       *)
(* called on the weight key with the value MaxWeight and with a pair of    *)
(* nodes that need not be an edge, and del_nodes.                          *)
(***************************************************************************)
\* graph.set_property(graph.weight_key, value, node1, node2)
GraphSetProperty ==
  \E node1, node2 \in GraphNode : \E value \in {MaxWeight} :
    /\ SetGraph(Graph_set_property(graph, weight_key, value, <<node1, node2>>))
    /\ last_op' = Op("set_property", <<node1, node2>>, "none", None)
    /\ SearchUnchanged

\* graph.set_property_default(graph.weight_key, value)
GraphSetPropertyDefault ==
  \E value \in {MaxWeight} :
    /\ SetGraph(Graph_set_property_default(graph, weight_key, value))
    /\ last_op' = Op("set_property_default", <<>>, "none", None)
    /\ SearchUnchanged

\* graph.del_property(graph.weight_key, node1, node2)
GraphDelProperty ==
  \E node1, node2 \in GraphNode :
    /\ SetGraph(Graph_del_property(graph, weight_key, <<node1, node2>>))
    /\ last_op' = Op("del_property", <<node1, node2>>, "none", None)
    /\ SearchUnchanged

\* graph.del_property_default(graph.weight_key)
GraphDelPropertyDefault ==
  /\ SetGraph(Graph_del_property_default(graph, weight_key))
  /\ last_op' = Op("del_property_default", <<>>, "none", None)
  /\ SearchUnchanged

\* graph.del_nodes(nodes), nodes a list of at most two nodes
GraphDelNodes ==
  \E node_list \in {<<>>} \cup {<<a>> : a \in GraphNode}
               \cup {<<a, b>> : a, b \in GraphNode} :
    \E r \in {del_nodes(graph, node_list)} :
      /\ SetGraph(r.g)
      /\ last_op' = Op("del_nodes", node_list, r.exc, None)
      /\ SearchUnchanged

FacadeNext ==
  \/ GraphNext
  \/ GraphSetProperty \/ GraphSetPropertyDefault
  \/ GraphDelProperty \/ GraphDelPropertyDefault
  \/ GraphDelNodes

FacadeSpec == GraphInit /\ [][FacadeNext]_vars

(***************************************************************************)
(* C12: after any sequence of add_node, add_edge, set_weight, del_edge and *)
(* del_node on a Graph, with the default stores or with separate ones,     *)
(* both end nodes of every edge are nodes of the graph.                    *)
(***************************************************************************)
C12_EdgeEndsAreNodes ==
  /\ \A e \in edges(graph) : has_node(graph, e[1]) /\ has_node(graph, e[2])
  /\ \A a, b \in Node : has_edge(graph, a, b) => has_node(graph, a) /\ has_node(graph, b)

\* A graph with separate stores that still has an edge after a del_node
\* that deleted other edges.
C12_Witness ==
  /\ store_kind = "separate"
  /\ last_op.op = "del_node" /\ last_op.exc = "none"
  /\ edges(graph) # {}
  /\ \E n \in DOMAIN parents : parents[n] = {}

(***************************************************************************)
(* C13: del_node(x) on a node x of the graph returns normally and leaves   *)
(* a graph without the node x, without any edge from or to x (the          *)
(* self-loop included) and without the weight of any edge it removed; the  *)
(* other nodes, the edges between them, their weights, every other entry   *)
(* of the property store and the default weight are as before.  When every *)
(* stored weight was the weight of an edge, no weight is left for a pair   *)
(* with x in it.                                                           *)
(***************************************************************************)
\* Every weight stored in g is the weight of an edge of g.
WeightsOnEdgesOnly(g) ==
  \A a, b \in Node : has_weight(g, a, b) => has_edge(g, a, b)

\* The weights stored for edges between nodes other than x, and the
\* property defaults.
WeightsAwayFrom(g, x) ==
  [e \in {p \in (Node \ {x}) \X (Node \ {x}) : has_weight(g, p[1], p[2])} |->
     weight(g, e[1], e[2], None)]
Defaults(g) == {k \in DOMAIN g.kh : k[1] = 0}

C13_DelNodeStep ==
  (last_op'.op = "del_node" /\ has_node(graph, last_op'.args[1])) =>
    LET x == last_op'.args[1]
    IN  /\ last_op'.exc = "none"
        /\ ~has_node(graph', x)
        /\ \A u \in Node : ~has_edge(graph', u, x) /\ ~has_edge(graph', x, u)
        /\ \A e \in EdgesAt(graph, x) : ~has_weight(graph', e[1], e[2])
        /\ WeightsOnEdgesOnly(graph) =>
             \A u \in Node : ~has_weight(graph', u, x) /\ ~has_weight(graph', x, u)
        /\ DOMAIN graph'.kh =
             DOMAIN graph.kh \ {HedgeKey(weight_key, e) : e \in EdgesAt(graph, x)}
        /\ \A k \in DOMAIN graph'.kh : graph'.kh[k] = graph.kh[k]
        /\ nodes_of(graph') = nodes_of(graph) \ {x}
        /\ edges(graph') = edges(graph) \ EdgesAt(graph, x)
        /\ WeightsAwayFrom(graph', x) = WeightsAwayFrom(graph, x)
        /\ Defaults(graph') = Defaults(graph)
        /\ \A k \in Defaults(graph) : graph'.kh[k] = graph.kh[k]

C13_DelNodeRemovesNodeAndEdges == [][C13_DelNodeStep]_vars

\* del_node has deleted a node that had two edges, and a node is left.
C13_Witness ==
  /\ last_op.op = "del_node" /\ last_op.exc = "none" /\ last_op.ret = 2
  /\ n_nodes(graph) = 1
  /\ ~has_node(graph, last_op.args[1])

(***************************************************************************)
(* C14: add_node(x) for a node x of the graph changes nothing: n_nodes(),  *)
(* the nodes, the edges (the out-edges of x among them) and the weights    *)
(* are as before, in every state the graph can reach.                      *)
(***************************************************************************)
C14_AddNodeStep ==
  (last_op'.op = "add_node" /\ has_node(graph, last_op'.args[1])) =>
    /\ last_op'.exc = "none"
    /\ n_nodes(graph') = n_nodes(graph)
    /\ nodes_of(graph') = nodes_of(graph)
    /\ edges(graph') = edges(graph)
    /\ out_neighbors(graph', last_op'.args[1]) = out_neighbors(graph, last_op'.args[1])
    /\ graph' = graph

C14_AddNodeIdempotent == [][C14_AddNodeStep]_vars

\* add_node(x) has returned on a graph with the default stores and x has
\* an out-edge with a weight: x was a node before the call.
C14_Witness ==
  /\ store_kind = "combined"
  /\ last_op.op = "add_node"
  /\ \E v \in out_neighbors(graph, last_op.args[1]) :
       has_weight(graph, last_op.args[1], v)

(***************************************************************************)
(* C15: add_edge(a, b) without a weight never writes a weight, and on an   *)
(* edge that exists it changes nothing: n_edges(), the nodes, the edges    *)
(* and the weight stored for (a, b) are as before.  add_edge with a weight *)
(* stores a weight for (a, b).                                             *)
(***************************************************************************)
C15_AddEdgeStep ==
  /\ last_op'.op = "add_edge" =>
       LET a == last_op'.args[1]
           b == last_op'.args[2]
       IN  /\ graph'.kh = graph.kh
           /\ has_edge(graph', a, b)
           /\ has_edge(graph, a, b) =>
                /\ n_edges(graph') = n_edges(graph)
                /\ nodes_of(graph') = nodes_of(graph)
                /\ edges(graph') = edges(graph)
                /\ has_weight(graph', a, b) = has_weight(graph, a, b)
                /\ weight(graph', a, b, None) = weight(graph, a, b, None)
                /\ graph' = graph
  /\ last_op'.op = "add_edge_weight" =>
       /\ has_weight(graph', last_op'.args[1], last_op'.args[2])
       /\ weight(graph', last_op'.args[1], last_op'.args[2], None) \in GraphWeights

C15_AddEdgeKeepsWeight == [][C15_AddEdgeStep]_vars

\* add_edge(a, b) without a weight has returned and (a, b) has a stored
\* weight that is not the default: the edge existed, with that weight.
C15_Witness ==
  /\ last_op.op = "add_edge"
  /\ has_weight(graph, last_op.args[1], last_op.args[2])
  /\ weight(graph, last_op.args[1], last_op.args[2], None) = MaxWeight

(***************************************************************************)
(* C16, as stated: when add_edge(a, b) without a weight re-creates an edge *)
(* that del_edge(a, b) has just deleted together with its stored weight,   *)
(* weight(a, b) does not return the weight the edge had.                   *)
(***************************************************************************)
C16_ReaddedWeightDiffers ==
  [][(/\ last_op.op = "del_edge" /\ last_op.exc = "none" /\ last_op.ret # None
      /\ last_op'.op = "add_edge" /\ last_op'.args = last_op.args)
     => weight(graph', last_op.args[1], last_op.args[2], None) # last_op.ret]_vars

(***************************************************************************)
(* C16, amended: del_edge(a, b) on an edge of the graph returns normally   *)
(* and leaves neither the edge nor a weight stored for it; and             *)
(* add_edge(a, b) without a weight on a pair that is no edge and has no    *)
(* stored weight, as it is right after del_edge(a, b), leaves an edge with *)
(* no stored weight, for which weight(a, b) gives the default weight.      *)
(***************************************************************************)
C16_DelEdgeStep ==
  /\ (last_op'.op = "del_edge"
      /\ has_edge(graph, last_op'.args[1], last_op'.args[2])) =>
       /\ last_op'.exc = "none"
       /\ ~has_edge(graph', last_op'.args[1], last_op'.args[2])
       /\ ~has_weight(graph', last_op'.args[1], last_op'.args[2])
  /\ (last_op'.op = "add_edge"
      /\ ~has_edge(graph, last_op'.args[1], last_op'.args[2])
      /\ ~has_weight(graph, last_op'.args[1], last_op'.args[2])) =>
       /\ has_edge(graph', last_op'.args[1], last_op'.args[2])
       /\ ~has_weight(graph', last_op'.args[1], last_op'.args[2])
       /\ weight(graph', last_op'.args[1], last_op'.args[2], None)
            = get_property_default(graph'.kh, weight_key, None)
  /\ (last_op.op = "del_edge" /\ last_op.exc = "none"
      /\ last_op'.op = "add_edge" /\ last_op'.args = last_op.args) =>
       /\ has_edge(graph', last_op.args[1], last_op.args[2])
       /\ ~has_weight(graph', last_op.args[1], last_op.args[2])

C16_DelEdgeForgetsWeight == [][C16_DelEdgeStep]_vars

\* del_edge(a, b) has deleted an edge that had the stored weight MaxWeight;
\* weight(a, b) now gives the default weight.
C16_Witness ==
  /\ last_op.op = "del_edge" /\ last_op.exc = "none" /\ last_op.ret = MaxWeight
  /\ ~has_edge(graph, last_op.args[1], last_op.args[2])
  /\ ~has_weight(graph, last_op.args[1], last_op.args[2])
  /\ weight(graph, last_op.args[1], last_op.args[2], None) = DefaultWeight

(***************************************************************************)
(* The stores as state machines of their own: one store per behaviour,     *)
(* named by store_kind, constructed empty, and one action per method       *)
(* called on it directly (no Graph in between).                            *)
(***************************************************************************)
NodeStores == {"DictSetNodeEdgeStore", "SetNodeStore"}
EdgeStores == {"DictSetNodeEdgeStore", "DictSetEdgeStore"}
PropertyStores == {"DictPropertyStore"}

\* The node tuples a property is stored for, the values stored (the store
\* object among them) and the values passed as value_if_not_exist.
Hedges == {<<1>>, <<1, 2>>}
\* The property keys: 'weight', and the tuple ('weight', 1).
PropKeys == {weight_key, TupleOf(<<WeightKey, 1>>)}
PropValues == {None, Self, DefaultWeight, MaxWeight}
AbsentValues == {None, 0}

StoreInit ==
  /\ NoSearch
  /\ store_kind \in NodeStores \cup EdgeStores \cup PropertyStores
  /\ nodes2childrens = EmptyDict /\ set_nodes = {} /\ parents = EmptyDict
  /\ key_hedge2val = EmptyDict
  /\ last_op = NoOp

\* has_node, n_nodes, has_edge and n_edges of the store of this behaviour.
StoreHasNode(node) ==
  IF store_kind = "SetNodeStore" THEN SetNodeStore_has_node(set_nodes, node)
  ELSE store_has_node(nodes2childrens, node)
StoreNNodes ==
  IF store_kind = "SetNodeStore" THEN SetNodeStore_n_nodes(set_nodes)
  ELSE store_n_nodes(nodes2childrens)
StoreHasEdge(node1, node2) ==
  IF store_kind = "DictSetEdgeStore" THEN DictSetEdgeStore_has_edge(parents, node1, node2)
  ELSE store_has_edge(nodes2childrens, node1, node2)
StoreNEdges ==
  IF store_kind = "DictSetEdgeStore" THEN DictSetEdgeStore_n_edges(parents)
  ELSE store_n_edges(nodes2childrens)

StoreAddNode ==
  \E node \in Node :
    /\ store_kind \in NodeStores
    /\ IF store_kind = "SetNodeStore"
       THEN /\ set_nodes' = SetNodeStore_add_node(set_nodes, node)
            /\ UNCHANGED nodes2childrens
       ELSE /\ nodes2childrens' = store_add_node(nodes2childrens, node)
            /\ UNCHANGED set_nodes
    /\ last_op' = Op("add_node", <<node>>, "none", None)
    /\ UNCHANGED <<parents, key_hedge2val, store_kind>>
    /\ SearchUnchanged

StoreDelNode ==
  \E node \in Node :
    /\ store_kind \in NodeStores
    /\ IF store_kind = "SetNodeStore"
       THEN /\ set_nodes' = SetNodeStore_del_node(set_nodes, node)
            /\ last_op' = Op("del_node", <<node>>,
                             KeyErrorIf(SetNodeStore_del_node_raises(set_nodes, node)),
                             None)
            /\ UNCHANGED nodes2childrens
       ELSE /\ nodes2childrens' = store_del_node(nodes2childrens, node)
            /\ last_op' = Op("del_node", <<node>>,
                             KeyErrorIf(store_del_node_raises(nodes2childrens, node)),
                             None)
            /\ UNCHANGED set_nodes
    /\ UNCHANGED <<parents, key_hedge2val, store_kind>>
    /\ SearchUnchanged

StoreAddEdge ==
  \E node1, node2 \in Node :
    /\ store_kind \in EdgeStores
    /\ StoreHasEdge(node1, node2) \/ StoreNEdges < MaxEdges
    /\ IF store_kind = "DictSetEdgeStore"
       THEN /\ parents' = DictSetEdgeStore_add_edge(parents, node1, node2)
            /\ UNCHANGED nodes2childrens
       ELSE /\ nodes2childrens' = store_add_edge(nodes2childrens, node1, node2)
            /\ UNCHANGED parents
    /\ last_op' = Op("add_edge", <<node1, node2>>, "none", None)
    /\ UNCHANGED <<set_nodes, key_hedge2val, store_kind>>
    /\ SearchUnchanged

StoreDelEdge ==
  \E node1, node2 \in Node :
    /\ store_kind \in EdgeStores
    /\ IF store_kind = "DictSetEdgeStore"
       THEN /\ parents' = DictSetEdgeStore_del_edge(parents, node1, node2)
            /\ last_op' = Op("del_edge", <<node1, node2>>,
                   KeyErrorIf(DictSetEdgeStore_del_edge_raises(parents, node1, node2)),
                   None)
            /\ UNCHANGED nodes2childrens
       ELSE /\ nodes2childrens' = store_del_edge(nodes2childrens, node1, node2)
            /\ last_op' = Op("del_edge", <<node1, node2>>,
                   KeyErrorIf(store_del_edge_raises(nodes2childrens, node1, node2)),
                   None)
            /\ UNCHANGED parents
    /\ UNCHANGED <<set_nodes, key_hedge2val, store_kind>>
    /\ SearchUnchanged

PropUnchanged ==
  /\ UNCHANGED <<nodes2childrens, set_nodes, parents, store_kind>>
  /\ SearchUnchanged

\* last_op records the property key as the last argument.
PropSet ==
  \E key \in PropKeys : \E hedge \in Hedges : \E value \in PropValues :
    /\ store_kind \in PropertyStores
    /\ key_hedge2val' = set_property(key_hedge2val, key, value, hedge)
    /\ last_op' = Op("set_property", <<hedge, value, key>>, "none", None)
    /\ PropUnchanged

PropSetDefault ==
  \E key \in PropKeys : \E value \in PropValues :
    /\ store_kind \in PropertyStores
    /\ key_hedge2val' = set_property_default(key_hedge2val, key, value)
    /\ last_op' = Op("set_property_default", <<value, key>>, "none", None)
    /\ PropUnchanged

PropDel ==
  \E key \in PropKeys : \E hedge \in Hedges :
    /\ store_kind \in PropertyStores
    /\ key_hedge2val' = del_property(key_hedge2val, key, hedge)
    /\ last_op' = Op("del_property", <<hedge, key>>, "none", None)
    /\ PropUnchanged

PropDelDefault ==
  \E key \in PropKeys :
    /\ store_kind \in PropertyStores
    /\ key_hedge2val' = del_property_default(key_hedge2val, key)
    /\ last_op' = Op("del_property_default", <<key>>, "none", None)
    /\ PropUnchanged

PropGet ==
  \E key \in PropKeys : \E hedge \in Hedges : \E value_if_not_exist \in AbsentValues :
    /\ store_kind \in PropertyStores
    /\ last_op' = Op("get_property", <<hedge, value_if_not_exist, key>>, "none",
                     get_property(key_hedge2val, key, hedge, value_if_not_exist))
    /\ UNCHANGED key_hedge2val
    /\ PropUnchanged

StoreNext ==
  \/ StoreAddNode \/ StoreDelNode \/ StoreAddEdge \/ StoreDelEdge
  \/ PropSet \/ PropSetDefault \/ PropDel \/ PropDelDefault \/ PropGet

StoreSpec == StoreInit /\ [][StoreNext]_vars

\* The state of the stores.
Stores == <<nodes2childrens, set_nodes, parents, key_hedge2val>>

(***************************************************************************)
(* C17: for each node store, del_node(n) on a node n that is not in the    *)
(* store raises (KeyError, the not-found error) and leaves the store as it *)
(* was.                                                                    *)
(***************************************************************************)
C17_DelAbsentNodeRaises ==
  [][(last_op'.op = "del_node" /\ ~StoreHasNode(last_op'.args[1]))
     => (last_op'.exc = "KeyError" /\ Stores' = Stores)]_vars

(***************************************************************************)
(* C18: for each edge store, del_edge(a, b) on a pair (a, b) that is no    *)
(* edge of the store raises (KeyError, the not-found error), whether or    *)
(* not a has an adjacency entry, and leaves the store as it was.           *)
(***************************************************************************)
C18_DelAbsentEdgeRaises ==
  [][(last_op'.op = "del_edge"
      /\ ~StoreHasEdge(last_op'.args[1], last_op'.args[2]))
     => (last_op'.exc = "KeyError" /\ Stores' = Stores)]_vars

(***************************************************************************)
(* C19: add_edge(a, b) of an edge store that is a node store too leaves    *)
(* has_node of every node and n_nodes() as they were.                      *)
(***************************************************************************)
C19_StoreAddEdgeKeepsNodes ==
  [][(last_op'.op = "add_edge" /\ store_kind \in NodeStores)
     => /\ \A n \in Node : StoreHasNode(n)' = StoreHasNode(n)
        /\ StoreNNodes' = StoreNNodes]_vars

(***************************************************************************)
(* C20: get_property(key, *nodes, value_if_not_exist) returns the value    *)
(* stored for (key, *nodes) if one is stored, whatever that value is;      *)
(* else the default of the key if one is stored; else value_if_not_exist.  *)
(***************************************************************************)
C20_GetReturnsStored ==
  last_op.op = "get_property" =>
    LET hedge == last_op.args[1]
        value_if_not_exist == last_op.args[2]
        key == last_op.args[3]
    IN  last_op.ret =
          IF has_property(key_hedge2val, key, hedge)
          THEN key_hedge2val[HedgeKey(key, hedge)]
          ELSE IF has_property_default(key_hedge2val, key)
          THEN key_hedge2val[BareKey(key)]
          ELSE value_if_not_exist

(***************************************************************************)
(* C21, as stated: in every graph the facade reaches, one constructed with *)
(* a default_weight included, weight(a, b, default) returns the caller's   *)
(* default when no weight is stored for (a, b).                            *)
(***************************************************************************)
C21_WeightGivesCallerDefault ==
  \A a, b \in GraphNode : \A default \in AbsentValues :
    ~has_weight(graph, a, b) => weight(graph, a, b, default) = default

(***************************************************************************)
(* C21, amended: when no weight is stored for (a, b), weight(a, b,         *)
(* default) returns the default weight of the graph if the graph has one   *)
(* (it was constructed with a default_weight that is not None), and the    *)
(* caller's default only if it has none.                                   *)
(***************************************************************************)
C21_WeightGivesGraphDefaultFirst ==
  \A a, b \in GraphNode : \A default \in AbsentValues :
    ~has_weight(graph, a, b) =>
      weight(graph, a, b, default) =
        IF BareKey(weight_key) \in DOMAIN key_hedge2val
        THEN key_hedge2val[BareKey(weight_key)]
        ELSE default

\* A graph with a default weight has got the edge (1, 2) without a weight:
\* weight(1, 2, 0) is the default weight of the graph, not 0.
C21_Witness ==
  /\ last_op.op = "add_edge" /\ last_op.args = <<1, 2>>
  /\ has_edge(graph, 1, 2) /\ ~has_weight(graph, 1, 2)
  /\ has_property_default(key_hedge2val, weight_key)
  /\ weight(graph, 1, 2, 0) = DefaultWeight

(***************************************************************************)
(* Functions of a whole graph: Graph.to_nodes_edges and                    *)
(* Graph.from_nodes_edges, called on graphs the facade has built.  Nodes   *)
(* are hashable values, None among them.                                   *)
(***************************************************************************)
HashNode == {None} \cup GraphNode

\* list(graph.to_nodes_edges()): (node,) for every node, then every edge, in
\* the orders the stores iterate in.
to_nodes_edges(g, node_order, edge_order) ==
  [i \in 1 .. Len(node_order) |-> <<node_order[i]>>] \o edge_order

\* An item that is neither (node,), (node, None) nor (node1, node2).
from_nodes_edges_raises(nodes_edges) ==
  \E i \in 1 .. Len(nodes_edges) : Len(nodes_edges[i]) \notin {1, 2}

\* The loop of from_nodes_edges over the items that are left.
RECURSIVE from_nodes_edges_loop(_, _)
from_nodes_edges_loop(g, nodes_edges) ==
  IF nodes_edges = <<>> THEN g
  ELSE LET item == Head(nodes_edges)
       IN  IF Len(item) = 1 \/ (Len(item) = 2 /\ item[2] = None)
           THEN from_nodes_edges_loop(add_node(g, item[1]), Tail(nodes_edges))
           ELSE IF Len(item) = 2
           THEN from_nodes_edges_loop(add_edge(g, item[1], item[2]), Tail(nodes_edges))
           ELSE g

from_nodes_edges(nodes_edges) == from_nodes_edges_loop(GraphNew(None), nodes_edges)

(***************************************************************************)
(* State machine of the functions of a whole graph.  The graph is one the  *)
(* facade has built from nodes and edges; a behaviour is one call on it.   *)
(***************************************************************************)
CallInit ==
  /\ NoSearch
  /\ \E nodes \in SUBSET HashNode :
     \E es \in SubsetsUpTo(HashNode \X HashNode, MaxEdges - 1) :
     \E g0 \in {GraphNew(None), GraphNewSeparate(None)} :
     \E g \in {add_edges(add_nodes(g0, nodes), es)} :
       /\ nodes2childrens = g.n2c /\ set_nodes = g.ns /\ parents = g.ps
       /\ key_hedge2val = g.kh /\ store_kind = g.kind
  /\ last_op = NoOp

GraphUnchanged ==
  UNCHANGED <<nodes2childrens, set_nodes, parents, key_hedge2val, store_kind>>

\* Graph.from_nodes_edges(list(graph.to_nodes_edges())); ret records the
\* nodes and the edges of the graph it returns.
CallRoundTrip ==
  \E node_order \in Perms(nodes_of(graph)) : \E edge_order \in Perms(edges(graph)) :
  \E h \in {from_nodes_edges(to_nodes_edges(graph, node_order, edge_order))} :
    /\ last_op = NoOp
    /\ last_op' = Op("from_nodes_edges", <<>>, "none",
                     [nodes |-> nodes_of(h), edges |-> edges(h)])
    /\ GraphUnchanged
    /\ SearchUnchanged

\* graph.del_edges(edges), edges a list of at most two edge_list of the graph
CallDelEdges ==
  \E edge_list \in {<<>>} \cup {<<e>> : e \in edges(graph)}
               \cup {<<e1, e2>> : e1, e2 \in edges(graph)} :
    \E r \in {del_edges(graph, edge_list)} :
      /\ last_op = NoOp
      /\ SetGraph(r.g)
      /\ last_op' = Op("del_edges", edge_list, r.exc, None)
      /\ SearchUnchanged

CallNext == CallRoundTrip \/ CallDelEdges

CallSpec == CallInit /\ [][CallNext]_vars

(***************************************************************************)
(* visit_breadth_first and path_exists_bfs.  visit_breadth_first is a      *)
(* generator function: the call runs none of its body and returns a        *)
(* generator; each next() runs the body up to the next yield, or to its    *)
(* end (StopIteration), or to an exception.  A generator value holds the   *)
(* frame of the body:                                                      *)
(*   pc       "created": not started; "yielded": suspended at the yield;   *)
(*            "done": finished;                                            *)
(*   start, queue, visited, node   the argument and the locals;            *)
(*   exc      how the last next() ended: "none" (it yielded node),         *)
(*            "StopIteration" or "KeyError";                               *)
(*   yielded  the nodes yielded so far, in order;                          *)
(*   changed  whether the graph was modified after the call.               *)
(* iter_order is the order in which the stores' sets yield their members:  *)
(* a set is iterated in the order its members have in iter_order.          *)
(***************************************************************************)
Iterated(S, iter_order) == SelectSeq(iter_order, LAMBDA n : n \in S)

\* visit_breadth_first(graph, start): the generator, not started
visit_breadth_first(g, start) ==
  [NotVisiting EXCEPT !.pc = "created", !.start = start]

\* Mutant of visit_seed: the queue is seeded with the start.
visit_seed_start(g, start, iter_order) == <<start>>

\* collections.deque(graph.out_neighbors(start))
visit_seed(g, start, iter_order) == Iterated(out_neighbors(g, start), iter_order)

\* The while loop from its test to the next yield or to its end.
RECURSIVE visit_run(_)
visit_run(it) ==
  IF it.queue = <<>> THEN [it EXCEPT !.pc = "done", !.exc = "StopIteration"]
  ELSE LET node == Head(it.queue)
       IN  IF node \in it.visited
           THEN visit_run([it EXCEPT !.queue = Tail(@)])
           ELSE [it EXCEPT !.pc = "yielded", !.exc = "none", !.queue = Tail(@),
                           !.node = node, !.yielded = Append(@, node)]

\* next(it) on the graph g: from the start of the body, or from the yield,
\* to the next yield, the end or a KeyError out of graph.out_neighbors.
visit_next(g, it, iter_order) ==
  IF it.pc = "created"
  THEN IF out_neighbors_raises(g, it.start)
       THEN [it EXCEPT !.pc = "done", !.exc = "KeyError"]
       ELSE visit_run([it EXCEPT !.queue = visit_seed(g, it.start, iter_order)])
  ELSE IF it.pc = "yielded"
  THEN LET visited1 == it.visited \cup {it.node}
       IN  IF out_neighbors_raises(g, it.node)
           THEN [it EXCEPT !.pc = "done", !.exc = "KeyError", !.visited = visited1]
           ELSE visit_run(
                  [it EXCEPT !.visited = visited1,
                             !.queue = @ \o SelectSeq(
                                Iterated(out_neighbors(g, it.node), iter_order),
                                LAMBDA neighbor : neighbor \notin visited1)])
  ELSE [it EXCEPT !.exc = "StopIteration"]

\* The generator it run to its end on the graph g, as a for loop or list()
\* runs it.
RECURSIVE visit_all(_, _, _)
visit_all(g, it, iter_order) ==
  IF it.pc = "done" THEN it ELSE visit_all(g, visit_next(g, it, iter_order), iter_order)

\* graph.out_neighbors(start) raises KeyError
visit_breadth_first_raises(g, start) == out_neighbors_raises(g, start)

\* for node in visit_breadth_first(graph, start): if node == end: return True
path_exists_bfs(g, start, end, iter_order) ==
  end \in Range(visit_all(g, visit_breadth_first(g, start), iter_order).yielded)

(***************************************************************************)
(* State machine of a generator of visit_breadth_first: the call, then one *)
(* step per next().  While the generator is suspended the caller may       *)
(* modify the graph, here at most once, by add_edge, del_edge or del_node. *)
(* path_exists_bfs runs its generator to the end within one call.  The     *)
(* graph is one the facade has built from edges.                           *)
(***************************************************************************)
VisitInit ==
  /\ NoSearch
  /\ \E es \in SubsetsUpTo(HashNode \X HashNode, MaxEdges - 1) :
     \E g0 \in {GraphNew(None), GraphNewSeparate(None)} :
     \E g \in {add_edges(g0, es)} :
       /\ nodes2childrens = g.n2c /\ set_nodes = g.ns /\ parents = g.ps
       /\ key_hedge2val = g.kh /\ store_kind = g.kind
  /\ last_op = NoOp

\* The variables of a call of shortest_path_btw_sets.
ArgsUnchanged ==
  UNCHANGED <<begins, ends_arg, distance, excluded_nodes, excluded_edges,
              is_distance_ok, search>>

\* it = visit_breadth_first(graph, start)
VisitCall ==
  \E start \in HashNode :
    /\ last_op = NoOp
    /\ visitor' = visit_breadth_first(graph, start)
    /\ last_op' = Op("visit_breadth_first", <<start>>, "none", None)
    /\ GraphUnchanged
    /\ ArgsUnchanged

\* next(it); ret records the node yielded, None when there is none.
VisitNext ==
  \E iter_order \in Perms(HashNode) :
    /\ visitor.pc \in {"created", "yielded"}
    /\ visitor' = visit_next(graph, visitor, iter_order)
    /\ last_op' = Op("next", <<visitor.start>>, visitor'.exc,
                     IF visitor'.exc = "none" THEN visitor'.node ELSE None)
    /\ GraphUnchanged
    /\ ArgsUnchanged

\* The generator is suspended and the graph is as it was at the call.
Suspended == visitor.pc \in {"created", "yielded"} /\ ~visitor.changed

\* graph.add_edge(node1, node2) while the generator is suspended
VisitAddEdge ==
  \E node1, node2 \in HashNode :
    /\ Suspended
    /\ RoomFor(node1, node2)
    /\ SetGraph(add_edge(graph, node1, node2))
    /\ visitor' = [visitor EXCEPT !.changed = TRUE]
    /\ last_op' = Op("add_edge", <<node1, node2>>, "none", None)
    /\ ArgsUnchanged

\* graph.del_edge(node1, node2) of an edge, while the generator is suspended
VisitDelEdge ==
  \E edge \in edges(graph) :
    /\ Suspended
    /\ SetGraph(del_edge(graph, edge[1], edge[2]))
    /\ visitor' = [visitor EXCEPT !.changed = TRUE]
    /\ last_op' = Op("del_edge", edge, "none", None)
    /\ ArgsUnchanged

\* graph.del_node(node) of a node, while the generator is suspended
VisitDelNode ==
  \E node \in nodes_of(graph) :
    /\ Suspended
    /\ SetGraph(del_node(graph, node))
    /\ visitor' = [visitor EXCEPT !.changed = TRUE]
    /\ last_op' = Op("del_node", <<node>>, KeyErrorIf(del_node_raises(graph, node)),
                     None)
    /\ ArgsUnchanged

\* path_exists_bfs(graph, start, end)
CallPathExists ==
  \E start, end \in HashNode : \E iter_order \in Perms(HashNode) :
    /\ last_op = NoOp
    /\ last_op' =
         IF visit_breadth_first_raises(graph, start)
         THEN Op("path_exists_bfs", <<start, end>>, "KeyError", FALSE)
         ELSE Op("path_exists_bfs", <<start, end>>, "none",
                 path_exists_bfs(graph, start, end, iter_order))
    /\ GraphUnchanged
    /\ SearchUnchanged

VisitStep ==
  \/ VisitCall \/ VisitNext
  \/ VisitAddEdge \/ VisitDelEdge \/ VisitDelNode
  \/ CallPathExists

VisitSpec == VisitInit /\ [][VisitStep]_vars

(***************************************************************************)
(* C22: Graph.from_nodes_edges(list(G.to_nodes_edges())) has the nodes of  *)
(* G and the edges of G, for every graph G the facade builds, None being a *)
(* node like any other.                                                    *)
(***************************************************************************)
C22_RoundTripKeepsNodesEdges ==
  last_op.op = "from_nodes_edges" =>
    /\ last_op.ret.nodes = nodes_of(graph)
    /\ last_op.ret.edges = edges(graph)

(***************************************************************************)
(* C23: during shortest_path_btw_sets every node is settled at most once.  *)
(* An iteration that pops an entry whose node is already in the settled    *)
(* map (settled earlier, or pre-marked as excluded) leaves the map as it   *)
(* is, expands no neighbor and pushes nothing; an iteration settles at     *)
(* most the one node it popped, which was not in the map; and what the map *)
(* holds for a node never changes once written.                            *)
(***************************************************************************)
StaleNext ==
  /\ search.pc = "loop" /\ ~NextPop.raised /\ NextVerdict < 1
  /\ NextNode \in DOMAIN search.spst

C23_IterateStep ==
  /\ StaleNext =>
       /\ search'.spst = search.spst
       /\ search'.queue = NextPop.heap
       /\ search'.n_settled = search.n_settled
       /\ search'.n_expanded = search.n_expanded
       /\ search'.n_pushed = search.n_pushed
       /\ search'.n_dist_calls = search.n_dist_calls
  /\ search.pc = "loop" =>
       /\ \A n \in DOMAIN search.spst :
            n \in DOMAIN search'.spst /\ search'.spst[n] = search.spst[n]
       /\ search'.n_settled \in {search.n_settled, search.n_settled + 1}
       /\ IF search'.n_settled = search.n_settled
          THEN search'.spst = search.spst
          ELSE /\ NextNode \notin DOMAIN search.spst
               /\ DOMAIN search'.spst = DOMAIN search.spst \cup {NextNode}
               /\ search'.spst[NextNode] = <<NextPop.item[1], NextPop.item[3]>>

C23_SettledOnce == [][C23_IterateStep]_vars

\* The entry just popped was stale: its node had been settled earlier, from
\* another predecessor or at another distance, and the entry was discarded.
C23_Witness ==
  /\ search.popped # <<>>
  /\ search.popped[2] \in DOMAIN search.spst
  /\ search.spst[search.popped[2]] # <<>>
  /\ search.spst[search.popped[2]] # <<search.popped[1], search.popped[3]>>
  /\ search.len_cmp < 1

(***************************************************************************)
(* A call of shortest_path_btw_sets that has begun goes on running: the    *)
(* interpreter takes the next step of the loop as long as there is one.    *)
(***************************************************************************)
LiveSpec == Init /\ [][Next]_vars /\ WF_vars(Next)

(***************************************************************************)
(* C24: shortest_path_btw_sets terminates on every graph and for all       *)
(* arguments: the call ends (with a path, None or an exception).  A node   *)
(* is expanded at most once, so never more entries are pushed than the     *)
(* graph has edges (the frontier holds at most the begin entries and       *)
(* these); every iteration that does not end the call brings the entries   *)
(* in the frontier plus the pushes still possible down by one; and a call  *)
(* that returns None without a +1 verdict has exhausted the frontier.      *)
(***************************************************************************)
Expanded == {n \in DOMAIN search.spst : search.spst[n] # <<>>}

C24_Bounded ==
  /\ search.n_pushed <= n_edges(graph)
  /\ search.n_expanded <= Cardinality(Expanded)
  /\ Len(search.queue) <= Len(begins) + n_edges(graph)
  /\ (search.pc = "done" /\ search.result = ResNone /\ search.len_cmp < 1)
       => search.queue = <<>>

Variant(s) == Len(s.queue) + n_edges(graph) - s.n_pushed

C24_IterateStep ==
  (search.pc = "loop" /\ search'.pc = "loop") => Variant(search') = Variant(search) - 1

C24_Terminates ==
  /\ []C24_Bounded
  /\ [][C24_IterateStep]_vars
  /\ <>(search.pc = "done")

\* The call returned None after it had pushed an entry for every edge of
\* the graph and popped them all: the frontier is exhausted.
C24_Witness ==
  /\ search.pc = "done" /\ search.result = ResNone
  /\ n_edges(graph) = MaxEdges /\ search.n_pushed = n_edges(graph)
  /\ search.queue = <<>> /\ search.len_cmp < 1

(***************************************************************************)
(* C25: for a start that is a node of the graph, the generator of          *)
(* visit_breadth_first, run to its end on a graph that is not modified     *)
(* meanwhile, yields exactly the nodes that a path of at least one edge    *)
(* leads to from start, each of them once; so start itself is yielded if   *)
(* and only if it lies on a cycle; and path_exists_bfs(graph, start, end)  *)
(* is true exactly when end is one of these nodes.                         *)
(***************************************************************************)
Successors(g, S) == {e[2] : e \in {x \in edges(g) : x[1] \in S}}

\* The nodes that paths of 1 to k + 1 edges lead to from the nodes S.
RECURSIVE ReachByEdges(_, _, _)
ReachByEdges(g, S, k) ==
  IF k = 0 THEN Successors(g, S)
  ELSE LET R == ReachByEdges(g, S, k - 1) IN R \cup Successors(g, R)

ReachableFrom(g, start) == ReachByEdges(g, {start}, n_nodes(g))

C25_BfsYieldsReachable ==
  /\ (visitor.pc \in {"yielded", "done"} /\ ~visitor.changed
      /\ has_node(graph, visitor.start)) =>
       /\ visitor.exc # "KeyError"
       /\ Range(visitor.yielded) \subseteq ReachableFrom(graph, visitor.start)
       /\ Len(visitor.yielded) = Cardinality(Range(visitor.yielded))
  /\ (visitor.pc = "done" /\ ~visitor.changed
      /\ has_node(graph, visitor.start)) =>
       /\ visitor.exc = "StopIteration"
       /\ Range(visitor.yielded) = ReachableFrom(graph, visitor.start)
       /\ visitor.start \in Range(visitor.yielded)
            <=> visitor.start \in ReachableFrom(graph, visitor.start)
  /\ (last_op.op = "path_exists_bfs" /\ has_node(graph, last_op.args[1])) =>
       /\ last_op.exc = "none"
       /\ last_op.ret <=> last_op.args[2] \in ReachableFrom(graph, last_op.args[1])

\* The start lies on a cycle of two edges: the generator has yielded both
\* of its nodes, the start last, and is exhausted; the graph is as it was.
C25_Witness ==
  /\ visitor.pc = "done" /\ visitor.start = 1 /\ ~visitor.changed
  /\ edges(graph) = {<<1, 2>>, <<2, 1>>}
  /\ visitor.yielded = <<2, 1>>
  /\ last_op.op = "next" /\ last_op.exc = "StopIteration"

(***************************************************************************)
(* C26: with edge distances that are not negative, the distances of the    *)
(* entries popped during one call never decrease, whatever the order and   *)
(* the multiplicity of the begin nodes: although the frontier starts as a  *)
(* plain list and ties are ordered by the nodes, a pop that returns yields *)
(* an entry of the least distance in the frontier.                         *)
(***************************************************************************)
C26_MinPoppedNext ==
  (search.pc = "loop" /\ ~NextPop.raised) =>
    \A i \in DOMAIN search.queue : NextPop.item[1] <= search.queue[i][1]

C26_PopStep ==
  (search.pc = "loop" /\ ~NextPop.raised /\ search.popped # <<>>) =>
    /\ search'.popped = NextPop.item
    /\ search.popped[1] <= search'.popped[1]

C26_PopsNonDecreasing == []C26_MinPoppedNext /\ [][C26_PopStep]_vars

\* Two begin entries given largest node first, so that the list the
\* frontier starts as is no heap of tuples; the frontier has since held
\* entries of different distances and the entry popped last is not at
\* distance 0.
C26_Witness ==
  /\ Len(begins) = 2 /\ begins[1] > begins[2]
  /\ has_node(graph, begins[1]) /\ has_node(graph, begins[2])
  /\ search.popped # <<>> /\ search.popped[1] > 0
  /\ search.queue # <<>> /\ search.queue[1][1] > search.popped[1]

(***************************************************************************)
(* C27: after any sequence of add_node, add_edge, set_weight, del_weight,  *)
(* del_edge and del_node of the facade, a weight is stored only for an     *)
(* edge of the graph: has_weight(a, b) implies has_edge(a, b), and so a    *)
(* and b are nodes.                                                        *)
(***************************************************************************)
C27_WeightsOnlyOnEdges ==
  \A a, b \in GraphNode :
    has_weight(graph, a, b) =>
      has_edge(graph, a, b) /\ has_node(graph, a) /\ has_node(graph, b)

\* del_node(2) has removed the weighted edges at node 2, raising nothing;
\* the weight of the loop at node 1 is all that is left.
C27_Witness ==
  /\ last_op.op = "del_node" /\ last_op.args = <<2>> /\ last_op.exc = "none"
  /\ last_op.ret >= 1
  /\ ~has_node(graph, 2) /\ has_weight(graph, 1, 1)
  /\ \A a, b \in GraphNode : has_weight(graph, a, b) <=> (a = 1 /\ b = 1)

(***************************************************************************)
(* Two graphs driven by the same calls: Graph() on the combined            *)
(* DictSetNodeEdgeStore, whose store is nodes2childrens, and               *)
(* Graph(SetNodeStore(), DictSetEdgeStore()), whose stores are set_nodes   *)
(* and parents.  No weight is ever set, so the property stores of both     *)
(* stay empty; key_hedge2val stands for either.                            *)
(***************************************************************************)
graph_combined ==
  [kind |-> "combined", n2c |-> nodes2childrens, ns |-> {}, ps |-> EmptyDict,
   kh |-> key_hedge2val]
graph_separate ==
  [kind |-> "separate", n2c |-> EmptyDict, ns |-> set_nodes, ps |-> parents,
   kh |-> key_hedge2val]

EquivInit ==
  /\ NoSearch
  /\ store_kind = "both"
  /\ nodes2childrens = GraphNew(None).n2c
  /\ set_nodes = GraphNewSeparate(None).ns
  /\ parents = GraphNewSeparate(None).ps
  /\ key_hedge2val = GraphNew(None).kh
  /\ last_op = NoOp

\* Both graphs become what the call leaves of them.
SetBoth(gc, gs) ==
  /\ nodes2childrens' = gc.n2c
  /\ set_nodes' = gs.ns
  /\ parents' = gs.ps
  /\ key_hedge2val' = gc.kh
  /\ UNCHANGED store_kind
  /\ SearchUnchanged

\* exc records the exceptions of the two calls.
EquivAddNode ==
  \E node \in Node :
    /\ SetBoth(add_node(graph_combined, node), add_node(graph_separate, node))
    /\ last_op' = Op("add_node", <<node>>, <<"none", "none">>, None)

EquivAddEdge ==
  \E node1, node2 \in Node :
    /\ has_edge(graph_combined, node1, node2) \/ n_edges(graph_combined) < MaxEdges
    /\ SetBoth(add_edge(graph_combined, node1, node2),
               add_edge(graph_separate, node1, node2))
    /\ last_op' = Op("add_edge", <<node1, node2>>, <<"none", "none">>, None)

\* del_edge of an edge of the graphs
EquivDelEdge ==
  \E node1, node2 \in Node :
    /\ has_edge(graph_combined, node1, node2)
    /\ has_edge(graph_separate, node1, node2)
    /\ SetBoth(del_edge(graph_combined, node1, node2),
               del_edge(graph_separate, node1, node2))
    /\ last_op' = Op("del_edge", <<node1, node2>>,
                     <<KeyErrorIf(del_edge_raises(graph_combined, node1, node2)),
                       KeyErrorIf(del_edge_raises(graph_separate, node1, node2))>>,
                     None)

\* del_node of a node of the graphs
EquivDelNode ==
  \E node \in Node :
    /\ has_node(graph_combined, node)
    /\ has_node(graph_separate, node)
    /\ SetBoth(del_node(graph_combined, node), del_node(graph_separate, node))
    /\ last_op' = Op("del_node", <<node>>,
                     <<KeyErrorIf(del_node_raises(graph_combined, node)),
                       KeyErrorIf(del_node_raises(graph_separate, node))>>,
                     None)

EquivNext == EquivAddNode \/ EquivAddEdge \/ EquivDelEdge \/ EquivDelNode

EquivSpec == EquivInit /\ [][EquivNext]_vars

(***************************************************************************)
(* C28: after the same sequence of add_node, add_edge, del_edge of edges   *)
(* of the graph and del_node of nodes of the graph, the graph on the       *)
(* combined store and the graph on separate stores report the same         *)
(* has_node, has_edge, n_nodes and n_edges, and for every node of the      *)
(* graph the same out_neighbors, in_neighbors, out_degree and in_degree;   *)
(* neither call raises.                                                    *)
(***************************************************************************)
C28_StoresEquivalent ==
  /\ \A n \in Node : has_node(graph_combined, n) <=> has_node(graph_separate, n)
  /\ \A a, b \in Node :
       has_edge(graph_combined, a, b) <=> has_edge(graph_separate, a, b)
  /\ n_nodes(graph_combined) = n_nodes(graph_separate)
  /\ n_edges(graph_combined) = n_edges(graph_separate)
  /\ \A n \in nodes_of(graph_combined) :
       /\ out_neighbors(graph_combined, n) = out_neighbors(graph_separate, n)
       /\ in_neighbors(graph_combined, n) = in_neighbors(graph_separate, n)
       /\ out_degree(graph_combined, n) = out_degree(graph_separate, n)
       /\ in_degree(graph_combined, n) = in_degree(graph_separate, n)
  /\ last_op.op # "none" => last_op.exc = <<"none", "none">>

\* del_node has removed a node that had children while edges remain: the
\* combined store has dropped its adjacency entry, the edge store of the
\* other graph keeps an empty one.
C28_Witness ==
  /\ last_op.op = "del_node"
  /\ last_op.args[1] \notin DOMAIN nodes2childrens
  /\ last_op.args[1] \in DOMAIN parents
  /\ n_edges(graph_combined) >= 1

(***************************************************************************)
(* Defaults and specific values of the property store.                     *)
(***************************************************************************)
\* What a read of the specific value of (key, *hedge) finds; None if none.
SpecificValue(kh, key, hedge) == DictGet(kh, HedgeKey(key, hedge), None)

\* No specific value of any property differs between the two dicts.
SameSpecifics(kh1, kh2) ==
  \A key \in PropKeys : \A hedge \in Hedges :
    /\ has_property(kh1, key, hedge) = has_property(kh2, key, hedge)
    /\ SpecificValue(kh1, key, hedge) = SpecificValue(kh2, key, hedge)

\* No default of any property differs between the two dicts.
SameDefaults(kh1, kh2) ==
  \A key \in PropKeys :
    /\ has_property_default(kh1, key) = has_property_default(kh2, key)
    /\ get_property_default(kh1, key, None) = get_property_default(kh2, key, None)

C29_Step ==
  /\ last_op'.op \in {"set_property_default", "del_property_default"}
       => SameSpecifics(key_hedge2val, key_hedge2val')
  /\ last_op'.op \in {"set_property", "del_property"}
       => SameDefaults(key_hedge2val, key_hedge2val')

\* C29: in DictPropertyStore defaults and specific values never alias, for
\* every property key, a tuple too: setting or deleting the default of a
\* key changes no has_property and no specific value of any (key', nodes),
\* and setting or deleting a specific value changes no has_property_default
\* and no get_property_default of any key.
C29_DefaultsAndSpecificsApart == [][C29_Step]_vars

(***************************************************************************)
(* Graph.del_edges                                                         *)
(***************************************************************************)
\* del_edge(a, b) for each edge (a, b) of the list, in order.
RECURSIVE DelEdgeEach(_, _)
DelEdgeEach(g, edge_list) ==
  IF edge_list = <<>> THEN g
  ELSE DelEdgeEach(del_edge(g, Head(edge_list)[1], Head(edge_list)[2]), Tail(edge_list))

\* The edge_list of the list are edge_list of g, each listed once.
DistinctEdgesOf(g, edge_list) ==
  /\ \A i \in DOMAIN edge_list : has_edge(g, edge_list[i][1], edge_list[i][2])
  /\ \A i, j \in DOMAIN edge_list : edge_list[i] = edge_list[j] => i = j

C30_DelEdgesStep ==
  (last_op'.op = "del_edges" /\ DistinctEdgesOf(graph, last_op'.args)) =>
    /\ last_op'.exc = "none"
    /\ graph' = DelEdgeEach(graph, last_op'.args)
    /\ \A i \in DOMAIN last_op'.args :
         /\ ~has_edge(graph', last_op'.args[i][1], last_op'.args[i][2])
         /\ ~has_weight(graph', last_op'.args[i][1], last_op'.args[i][2])

\* C30: Graph.del_edges(edges) removes every listed edge (a, b), with the
\* effect of del_edge(a, b) for each one in order: the edge and its weight
\* are gone and everything else is unchanged.
C30_DelEdgesDeletesEach == [][C30_DelEdgesStep]_vars

====
